---- MODULE Spec2Model ----
(***************************************************************************)
(* A model of the date resolution engine of MonthlyCalendar.py: the two    *)
(* Easter algorithms and the nth-weekday rule of class calcHolidays, the   *)
(* holiday import loop (calcHolidays.importHolidays) and the moon phase    *)
(* import loop (calcMoons.importMoons).                                    *)
(*                                                                         *)
(* A csv field is a sequence of one-character strings, so that int(),      *)
(* str(), find() and slicing are computed on the characters.  A csv row is *)
(* a sequence of fields, a csv file a sequence of rows.                    *)
(***************************************************************************)
EXTENDS Integers, Sequences, FiniteSets, TLC

VARIABLES
    year,          \* calcHolidays.year
    easter,        \* value returned by calcEaster / calcEasterO
    nthArgs,       \* arguments of a calcNthWeekdayOfMonth call
    nthRet,        \* its outcome: the tuple returned or the exception raised
    holidaysFile,  \* the holidays file: [exists, rows]
    pc,            \* position of importHolidays
    pos,           \* number of rows the csv reader of importHolidays has yielded
    holidaysList,  \* the local list importHolidays builds and returns
    warnings,      \* messageBox calls issued by importHolidays
    marks,         \* history: Len(holidaysList) after each row yielded
    myear,         \* calcMoons.year
    utcdiff,       \* calcMoons.utcdiff
    moonsFile,     \* the moon phases file: [exists, rows]
    mpc,           \* position of importMoons
    mpos,          \* number of rows the csv reader of importMoons has yielded
    moonsList,     \* the local list importMoons builds and returns
    mwarnings,     \* messageBox calls issued by importMoons
    x,             \* the local variable x of importMoons (the glyph)
    mmarks,        \* history: Len(moonsList) after each row yielded
    monthColors,   \* the monthColors argument of a ColorScheme classmethod
    ctor,          \* which ColorScheme constructor has been called
    colorScheme,   \* its outcome: the scheme returned or the exception raised
    form,          \* the request: the GUI form or the arguments of a script
    cal,           \* the ScMonthCalendar object
    doc,           \* the Scribus document: [have, unit, page size, margins]
    calls,         \* the calls issued to Scribus so far, in order
    bpc,           \* position of the build
    run,           \* the local variable run of createCalendar
    originalUnit,  \* the local variable originalUnit of createCalendar
    err,           \* what createCalendar returned
    status,        \* the message shown to the user
    firstweekday,  \* calendar.firstweekday(), module-wide
    trailing,      \* a _getTrailingDays call: [year, month, ret]
    returns,       \* the lists the earlier calls of the import method returned
    waiting        \* the ScMonthCalendar objects constructed and not yet run

holVars  == <<holidaysFile, pc, pos, holidaysList, warnings, marks>>
moonVars == <<myear, utcdiff, moonsFile, mpc, mpos, moonsList, mwarnings, x, mmarks>>
pureVars == <<easter, nthArgs, nthRet>>
colVars  == <<monthColors, ctor, colorScheme>>
buildVars == <<form, cal, doc, calls, bpc, run, originalUnit, err, status, firstweekday,
               trailing>>
runVars  == <<returns, waiting>>
calVars  == <<colVars, buildVars, runVars>>
vars     == <<year, calVars, pureVars, holVars, moonVars>>

(***************************************************************************)
(* Python's datetime and calendar modules, as far as the script uses them. *)
(***************************************************************************)
\* what stands for "no date": the call raised instead of returning one
NoDate == <<>>

\* calendar.isleap
IsLeap(y) == (y % 4 = 0) /\ ((y % 100 # 0) \/ (y % 400 = 0))

\* the day count of calendar.monthrange
DaysInMonth(y, m) ==
    IF m = 2 THEN (IF IsLeap(y) THEN 29 ELSE 28)
    ELSE IF m \in {4, 6, 9, 11} THEN 30 ELSE 31

\* datetime._days_before_year
DaysBeforeYear(y) ==
    365 * (y - 1) + ((y - 1) \div 4) - ((y - 1) \div 100) + ((y - 1) \div 400)

\* datetime._days_before_month
RECURSIVE DaysBeforeMonth(_, _)
DaysBeforeMonth(y, m) ==
    IF m = 1 THEN 0 ELSE DaysBeforeMonth(y, m - 1) + DaysInMonth(y, m - 1)

\* datetime.date(y, m, d) raises ValueError unless this holds
DateValid(y, m, d) ==
    /\ y \in 1..9999
    /\ m \in 1..12
    /\ d \in 1..DaysInMonth(y, m)

\* datetime.date(y, m, d): the date, or NoDate when it raises ValueError
MakeDate(y, m, d) == IF DateValid(y, m, d) THEN <<y, m, d>> ELSE NoDate

\* date.toordinal: 0001-01-01 is day 1
ToOrdinal(dt) == DaysBeforeYear(dt[1]) + DaysBeforeMonth(dt[1], dt[2]) + dt[3]

\* date.fromordinal
FromOrdinal(n) ==
    LET y == CHOOSE yy \in ((n \div 366) - 1)..((n \div 365) + 1) :
                 DaysBeforeYear(yy) < n /\ n <= DaysBeforeYear(yy + 1)
        r == n - DaysBeforeYear(y)
        m == CHOOSE mm \in 1..12 :
                 DaysBeforeMonth(y, mm) < r /\ r <= DaysBeforeMonth(y, mm) + DaysInMonth(y, mm)
    IN  <<y, m, r - DaysBeforeMonth(y, m)>>

\* date + timedelta(days=k)
DatePlusDays(dt, k) == FromOrdinal(ToOrdinal(dt) + k)

\* date.weekday: Monday is 0
Weekday(dt) == (ToOrdinal(dt) + 6) % 7

\* calendar.monthrange(year, month): (weekday of the 1st, days in month)
MonthRange(y, m) == <<Weekday(<<y, m, 1>>), DaysInMonth(y, m)>>

(***************************************************************************)
(* class calcHolidays: the Easter algorithms.                              *)
(***************************************************************************)
\* calcEaster with the correction term 7 * ((a + 11d + 22e) // 451) left out
calcEasterNoCorrection(Y) ==
    LET a == Y % 19
        b == Y \div 100
        c == Y % 100
        d == (19 * a + b - (b \div 4) - ((b - ((b + 8) \div 25) + 1) \div 3) + 15) % 30
        e == (32 + 2 * (b % 4) + 2 * (c \div 4) - d - (c % 4)) % 7
        f == d + e + 114
    IN  MakeDate(Y, f \div 31, (f % 31) + 1)

\* calcHolidays.calcEaster (Butcher's algorithm)
calcEaster(Y) ==
    LET a == Y % 19
        b == Y \div 100
        c == Y % 100
        d == (19 * a + b - (b \div 4) - ((b - ((b + 8) \div 25) + 1) \div 3) + 15) % 30
        e == (32 + 2 * (b % 4) + 2 * (c \div 4) - d - (c % 4)) % 7
        f == d + e - 7 * ((a + 11 * d + 22 * e) \div 451) + 114
    IN  MakeDate(Y, f \div 31, (f % 31) + 1)

\* calcHolidays.calcEasterO.  "from __future__ import division" (and Python 3)
\* makes m = e / 31 a true division: m is the rational e/31, so (m > 4) is
\* e > 4 * 31, and int(m) truncates it to e \div 31.
calcEasterO(Y) ==
    LET d  == (((Y % 19) * 19) + 15) % 30
        e  == (((Y % 4) * 2 + (Y % 7) * 4 - d + 34) % 7) + d + 127
        mGreater4 == e > 4 * 31
        a  == (e % 31) + 1 + (IF mGreater4 THEN 1 ELSE 0)
        am == IF a > 30 THEN <<1, 5>> ELSE <<a, e \div 31>>
    IN  MakeDate(Y, am[2], am[1])

\* calcHolidays.calcVarHoliday with delta added to the day of the month only
calcVarHolidayDayOnly(base, delta) == <<base[1], base[2], base[3] + delta>>

\* calcHolidays.calcVarHoliday
calcVarHoliday(base, delta) == DatePlusDays(base, delta)

(***************************************************************************)
(* calcHolidays.calcNthWeekdayOfMonth.  The outcome is a record: ok tells  *)
(* whether the call returned, exc names the exception raised otherwise,    *)
(* date is the tuple returned.  calendar.monthrange raises                 *)
(* IllegalMonthError for a month outside 1..12.                            *)
(***************************************************************************)
Raise(e) == [ok |-> FALSE, exc |-> e, date |-> NoDate]
Return(dt) == [ok |-> TRUE, exc |-> "", date |-> dt]

\* calcNthWeekdayOfMonth taking "last" to be the 5th occurrence only when the
\* month is longer than first_weekday_of_kind + 28
calcNthWeekdayOfMonthStrict(n, weekday, month, Y) ==
    IF ~(0 <= n /\ n <= 5) THEN Raise("IndexError")
    ELSE IF ~(0 <= weekday /\ weekday <= 6) THEN Raise("IndexError")
    ELSE IF month \notin 1..12 THEN Raise("IllegalMonthError")
    ELSE
        LET mr == MonthRange(Y, month)
            firstday == mr[1]
            daysinmonth == mr[2]
            first_weekday_of_kind == 1 + ((weekday - firstday) % 7)
            nn == IF n = 0
                  THEN (IF first_weekday_of_kind \in {1, 2, 3}
                           /\ first_weekday_of_kind + 28 < daysinmonth
                        THEN 5 ELSE 4)
                  ELSE n
            day == first_weekday_of_kind + ((nn - 1) * 7)
        IN  IF day > daysinmonth THEN Raise("IndexError")
            ELSE Return(<<Y, month, day>>)

\* calcNthWeekdayOfMonth counting the occurrences from 0: day = first + n * 7
calcNthWeekdayOfMonthOffByOne(n, weekday, month, Y) ==
    IF ~(0 <= n /\ n <= 5) THEN Raise("IndexError")
    ELSE IF ~(0 <= weekday /\ weekday <= 6) THEN Raise("IndexError")
    ELSE IF month \notin 1..12 THEN Raise("IllegalMonthError")
    ELSE
        LET mr == MonthRange(Y, month)
            firstday == mr[1]
            daysinmonth == mr[2]
            first_weekday_of_kind == 1 + ((weekday - firstday) % 7)
            nn == IF n = 0
                  THEN (IF first_weekday_of_kind \in {1, 2, 3}
                           /\ first_weekday_of_kind + 28 <= daysinmonth
                        THEN 5 ELSE 4)
                  ELSE n
            day == first_weekday_of_kind + (nn * 7)
        IN  IF day > daysinmonth THEN Raise("IndexError")
            ELSE Return(<<Y, month, day>>)

\* calcHolidays.calcNthWeekdayOfMonth
calcNthWeekdayOfMonth(n, weekday, month, Y) ==
    IF ~(0 <= n /\ n <= 5) THEN Raise("IndexError")
    ELSE IF ~(0 <= weekday /\ weekday <= 6) THEN Raise("IndexError")
    ELSE IF month \notin 1..12 THEN Raise("IllegalMonthError")
    ELSE
        LET mr == MonthRange(Y, month)
            firstday == mr[1]
            daysinmonth == mr[2]
            first_weekday_of_kind == 1 + ((weekday - firstday) % 7)
            nn == IF n = 0
                  THEN (IF first_weekday_of_kind \in {1, 2, 3}
                           /\ first_weekday_of_kind + 28 <= daysinmonth
                        THEN 5 ELSE 4)
                  ELSE n
            day == first_weekday_of_kind + ((nn - 1) * 7)
        IN  IF day > daysinmonth THEN Raise("IndexError")
            ELSE Return(<<Y, month, day>>)

(***************************************************************************)
(* Python's str and int on csv fields.                                     *)
(***************************************************************************)
DigitChars == <<"0", "1", "2", "3", "4", "5", "6", "7", "8", "9">>

IsDigit(c) == \E i \in 1..10 : DigitChars[i] = c

DigitVal(c) == (CHOOSE i \in 1..10 : DigitChars[i] = c) - 1

\* str.strip, for the blank
RECURSIVE StripLeft(_)
StripLeft(s) == IF s # <<>> /\ Head(s) = " " THEN StripLeft(Tail(s)) ELSE s

RECURSIVE StripRight(_)
StripRight(s) ==
    IF s # <<>> /\ s[Len(s)] = " " THEN StripRight(SubSeq(s, 1, Len(s) - 1)) ELSE s

\* the value of a sequence of digits
RECURSIVE DigitsVal(_)
DigitsVal(s) ==
    IF s = <<>> THEN 0 ELSE 10 * DigitsVal(SubSeq(s, 1, Len(s) - 1)) + DigitVal(s[Len(s)])

\* int(s) for a str s: blanks around it are dropped, a sign may lead, one
\* digit at least follows; anything else raises ValueError (ok is FALSE)
PyInt(s) ==
    LET t == StripRight(StripLeft(s))
        signed == t # <<>> /\ Head(t) \in {"+", "-"}
        ds == IF signed THEN Tail(t) ELSE t
    IN  IF ds # <<>> /\ \A i \in 1..Len(ds) : IsDigit(ds[i])
        THEN [ok |-> TRUE,
              val |-> IF signed /\ Head(t) = "-" THEN 0 - DigitsVal(ds) ELSE DigitsVal(ds)]
        ELSE [ok |-> FALSE, val |-> 0]

\* str(n) for an int n
RECURSIVE PyStr(_)
PyStr(n) ==
    IF n < 0 THEN <<"-">> \o PyStr(0 - n)
    ELSE IF n < 10 THEN <<DigitChars[n + 1]>>
    ELSE PyStr(n \div 10) \o <<DigitChars[(n % 10) + 1]>>

\* s.find(c): the 0-based index of the first c in s, -1 when there is none
Find(s, c) ==
    IF \E i \in 1..Len(s) : s[i] = c
    THEN (CHOOSE i \in 1..Len(s) : s[i] = c /\ \A j \in 1..(i - 1) : s[j] # c) - 1
    ELSE -1

\* s[:k]
SliceTo(s, k) ==
    IF k >= 0 THEN SubSeq(s, 1, IF k < Len(s) THEN k ELSE Len(s))
    ELSE SubSeq(s, 1, Len(s) + k)

\* row[i] exists (no IndexError), i counted from 0
Has(row, i) == Len(row) > i

\* row[i], i counted from 0
Fld(row, i) == row[i + 1]

(***************************************************************************)
(* calcHolidays.importHolidays: one pass of the loop body for one row.     *)
(* The outcome is [recs, ok]: the records appended to holidaysList, in     *)
(* order, and whether the body ended without an exception.  An exception   *)
(* keeps what was appended before it was raised.                           *)
(***************************************************************************)
TokFixed    == <<"f", "i", "x", "e", "d">>
TokNWDOM    == <<"n", "W", "D", "O", "M">>
TokVariable == <<"v", "a", "r", "i", "a", "b", "l", "e">>
TokEaster   == <<"e", "a", "s", "t", "e", "r">>
TokEasterO  == <<"e", "a", "s", "t", "e", "r", "O">>
TokDecember == <<"1", "2">>
TokJanuary  == <<"1">>

Body(recs, ok) == [recs |-> recs, ok |-> ok]

\* the "fixed" branch
importFixed(Y, row) ==
    IF ~Has(row, 5) THEN Body(<<>>, FALSE)
    ELSE
        LET rec(yy) == <<yy, Fld(row, 1), Fld(row, 2), Fld(row, 4), Fld(row, 5)>>
        IN  Body(<<rec(Y)>>
                 \o (IF Fld(row, 1) = TokDecember THEN <<rec(Y - 1)>> ELSE <<>>)
                 \o (IF Fld(row, 1) = TokJanuary THEN <<rec(Y + 1)>> ELSE <<>>),
                 TRUE)

\* one "dt = calcNthWeekdayOfMonth(...); holidaysList.append(...)" pair of the
\* "nWDOM" branch, for year yy: the record appended, or none when it raises
nWDOMRecord(yy, row) ==
    IF ~Has(row, 3) THEN Body(<<>>, FALSE)
    ELSE
        LET n == PyInt(Fld(row, 3))
            wd == PyInt(Fld(row, 2))
            mo == PyInt(Fld(row, 1))
        IN  IF ~(n.ok /\ wd.ok /\ mo.ok) THEN Body(<<>>, FALSE)
            ELSE
                LET dt == calcNthWeekdayOfMonth(n.val, wd.val, mo.val, yy)
                IN  IF ~dt.ok \/ ~Has(row, 5) THEN Body(<<>>, FALSE)
                    ELSE Body(<<<<yy, PyStr(dt.date[2]), PyStr(dt.date[3]),
                                  Fld(row, 4), Fld(row, 5)>>>>, TRUE)

\* the "nWDOM" branch giving the neighbouring year's record the day computed
\* for the year Y
importNWDOMSameDay(Y, row) ==
    LET own == nWDOMRecord(Y, row)
        copy(yy) == <<<<yy, own.recs[1][2], own.recs[1][3], own.recs[1][4], own.recs[1][5]>>>>
    IN  IF ~own.ok THEN own
        ELSE IF Fld(row, 1) = TokDecember THEN Body(own.recs \o copy(Y - 1), TRUE)
        ELSE IF Fld(row, 1) = TokJanuary THEN Body(own.recs \o copy(Y + 1), TRUE)
        ELSE own

\* the "nWDOM" branch
importNWDOM(Y, row) ==
    LET own == nWDOMRecord(Y, row)
    IN  IF ~own.ok THEN own
        ELSE
            LET dec == IF Fld(row, 1) = TokDecember THEN nWDOMRecord(Y - 1, row)
                       ELSE Body(<<>>, TRUE)
            IN  IF ~dec.ok THEN Body(own.recs, FALSE)
                ELSE
                    LET jan == IF Fld(row, 1) = TokJanuary THEN nWDOMRecord(Y + 1, row)
                               ELSE Body(<<>>, TRUE)
                    IN  Body(own.recs \o dec.recs \o jan.recs, jan.ok)

\* the "variable" branch
importVariable(Y, row) ==
    IF ~Has(row, 1) THEN Body(<<>>, FALSE)
    ELSE IF Fld(row, 1) \notin {TokEaster, TokEasterO} THEN Body(<<>>, TRUE)
    ELSE
        LET base == IF Fld(row, 1) = TokEasterO THEN calcEasterO(Y) ELSE calcEaster(Y)
        IN  IF base = NoDate \/ ~Has(row, 2) THEN Body(<<>>, FALSE)
            ELSE
                LET delta == PyInt(Fld(row, 2))
                IN  IF ~delta.ok \/ ~Has(row, 5) THEN Body(<<>>, FALSE)
                    ELSE
                        LET dt == calcVarHoliday(base, delta.val)
                        IN  Body(<<<<dt[1], PyStr(dt[2]), PyStr(dt[3]),
                                     Fld(row, 4), Fld(row, 5)>>>>, TRUE)

\* the loop body with an unknown leading token raising instead of passing
importRowStrict(Y, row) ==
    IF ~Has(row, 0) THEN Body(<<>>, FALSE)
    ELSE IF Fld(row, 0) = TokFixed THEN importFixed(Y, row)
    ELSE IF Fld(row, 0) = TokNWDOM THEN importNWDOM(Y, row)
    ELSE IF Fld(row, 0) = TokVariable THEN importVariable(Y, row)
    ELSE Body(<<>>, FALSE)

\* the loop body: the try block of importHolidays for one row
importRow(Y, row) ==
    IF ~Has(row, 0) THEN Body(<<>>, FALSE)
    ELSE IF Fld(row, 0) = TokFixed THEN importFixed(Y, row)
    ELSE IF Fld(row, 0) = TokNWDOM THEN importNWDOM(Y, row)
    ELSE IF Fld(row, 0) = TokVariable THEN importVariable(Y, row)
    ELSE Body(<<>>, TRUE)

(***************************************************************************)
(* calcMoons.importMoons: one pass of the loop body for one row.  The      *)
(* outcome is [recs, ok, x]: the records appended to moonsList, whether    *)
(* the body ended without an exception, and the local variable x after it. *)
(* x is assigned only by the four phase codes; it keeps the value of an    *)
(* earlier pass otherwise, and reading it unbound raises                   *)
(* UnboundLocalError.                                                      *)
(***************************************************************************)
Unbound == "unbound"

\* the if/elif chain on row[4]; the glyphs are named by their code points
Glyph(code, xin) ==
    IF code = <<"0">> THEN "U+25CF"
    ELSE IF code = <<"1">> THEN "U+25D0"
    ELSE IF code = <<"2">> THEN "U+25CB"
    ELSE IF code = <<"3">> THEN "U+25D1"
    ELSE xin

MoonBody(recs, ok, xout) == [recs |-> recs, ok |-> ok, x |-> xout]

\* the loop body rolling the date over only from hour 25 on
importMoonRowLate(Y, utc, row, xin) ==
    IF ~Has(row, 0) \/ ~PyInt(Fld(row, 0)).ok THEN MoonBody(<<>>, FALSE, xin)
    ELSE IF PyInt(Fld(row, 0)).val # Y THEN MoonBody(<<>>, TRUE, xin)
    ELSE IF ~Has(row, 2) \/ ~PyInt(Fld(row, 1)).ok \/ ~PyInt(Fld(row, 2)).ok
         THEN MoonBody(<<>>, FALSE, xin)
    ELSE
        LET dt == MakeDate(PyInt(Fld(row, 0)).val, PyInt(Fld(row, 1)).val,
                           PyInt(Fld(row, 2)).val)
        IN  IF dt = NoDate \/ ~Has(row, 3) THEN MoonBody(<<>>, FALSE, xin)
            ELSE
                LET hr == PyInt(SliceTo(Fld(row, 3), Find(Fld(row, 3), ":")))
                IN  IF ~hr.ok \/ ~Has(row, 4) THEN MoonBody(<<>>, FALSE, xin)
                    ELSE
                        LET timeHr == hr.val + utc
                            xx == Glyph(Fld(row, 4), xin)
                            d1 == DatePlusDays(dt, 1)
                            d0 == DatePlusDays(dt, -1)
                        IN  IF xx = Unbound THEN MoonBody(<<>>, FALSE, xx)
                            ELSE IF timeHr > 24
                            THEN MoonBody(<<<<PyStr(d1[2]), PyStr(d1[3]), xx>>>>, TRUE, xx)
                            ELSE IF timeHr < 0
                            THEN MoonBody(<<<<PyStr(d0[2]), PyStr(d0[3]), xx>>>>, TRUE, xx)
                            ELSE MoonBody(<<<<Fld(row, 1), Fld(row, 2), xx>>>>, TRUE, xx)

\* the loop body: the try block of importMoons for one row
importMoonRow(Y, utc, row, xin) ==
    IF ~Has(row, 0) \/ ~PyInt(Fld(row, 0)).ok THEN MoonBody(<<>>, FALSE, xin)
    ELSE IF PyInt(Fld(row, 0)).val # Y THEN MoonBody(<<>>, TRUE, xin)
    ELSE IF ~Has(row, 2) \/ ~PyInt(Fld(row, 1)).ok \/ ~PyInt(Fld(row, 2)).ok
         THEN MoonBody(<<>>, FALSE, xin)
    ELSE
        LET dt == MakeDate(PyInt(Fld(row, 0)).val, PyInt(Fld(row, 1)).val,
                           PyInt(Fld(row, 2)).val)
        IN  IF dt = NoDate \/ ~Has(row, 3) THEN MoonBody(<<>>, FALSE, xin)
            ELSE
                LET hr == PyInt(SliceTo(Fld(row, 3), Find(Fld(row, 3), ":")))
                IN  IF ~hr.ok \/ ~Has(row, 4) THEN MoonBody(<<>>, FALSE, xin)
                    ELSE
                        LET timeHr == hr.val + utc
                            xx == Glyph(Fld(row, 4), xin)
                            d1 == DatePlusDays(dt, 1)
                            d0 == DatePlusDays(dt, -1)
                        IN  IF xx = Unbound THEN MoonBody(<<>>, FALSE, xx)
                            ELSE IF timeHr > 23
                            THEN MoonBody(<<<<PyStr(d1[2]), PyStr(d1[3]), xx>>>>, TRUE, xx)
                            ELSE IF timeHr < 0
                            THEN MoonBody(<<<<PyStr(d0[2]), PyStr(d0[3]), xx>>>>, TRUE, xx)
                            ELSE MoonBody(<<<<Fld(row, 1), Fld(row, 2), xx>>>>, TRUE, xx)

(***************************************************************************)
(* class ColorScheme.  A colour is a CMYK tuple.  The dict colors is a     *)
(* function on its keys; a key is the pair of a role name and a month      *)
(* number: <<name, 0>> is the bare name and <<name, m>> is the key         *)
(* f"{name}-m{m}".                                                         *)
(***************************************************************************)
WHITE_CMYK       == <<0, 0, 0, 0>>
BLACK_CMYK       == <<0, 0, 0, 255>>
DARK_GREY_CMYK   == <<0, 0, 0, 200>>
MIDDLE_GREY_CMYK == <<0, 0, 0, 128>>
LIGHT_GREY_CMYK  == <<0, 0, 0, 21>>
RED_CMYK         == <<0, 234, 246, 0>>

Bare(name) == <<name, 0>>
Suffixed(name, month) == <<name, month>>

\* d[k] = v
DictSet(d, k, v) == (k :> v) @@ d

\* a pop that leaves the key in place
DictPopKeep(d, k) == d

\* d.pop(k)
DictPop(d, k) == [j \in (DOMAIN d) \ {k} |-> d[j]]

\* the dict(...) of ColorScheme.__init__
DefaultColors ==
    LET t == [fillMonthHeading   |-> WHITE_CMYK,
              txtMonthHeading    |-> BLACK_CMYK,
              fillDayNames       |-> DARK_GREY_CMYK,
              txtDayNames        |-> WHITE_CMYK,
              txtDayNamesWeekend |-> WHITE_CMYK,
              fillWeekNo         |-> DARK_GREY_CMYK,
              txtWeekNo          |-> WHITE_CMYK,
              fillDate           |-> WHITE_CMYK,
              txtDate            |-> BLACK_CMYK,
              txtDate2           |-> MIDDLE_GREY_CMYK,
              fillWeekend        |-> LIGHT_GREY_CMYK,
              fillWeekend2       |-> LIGHT_GREY_CMYK,
              txtWeekend         |-> DARK_GREY_CMYK,
              txtWeekend2        |-> <<0, 0, 0, 96>>,
              fillHoliday        |-> LIGHT_GREY_CMYK,
              txtHoliday         |-> RED_CMYK,
              fillSpecialDate    |-> WHITE_CMYK,
              txtSpecialDate     |-> MIDDLE_GREY_CMYK,
              gridColor          |-> MIDDLE_GREY_CMYK,
              gridMonthHeading   |-> WHITE_CMYK,
              gridDayNames       |-> MIDDLE_GREY_CMYK,
              gridWeekNo         |-> MIDDLE_GREY_CMYK]
    IN  [k \in {Bare(name) : name \in DOMAIN t} |-> t[k[1]]]

\* what a constructor gives back: the scheme returned or the exception raised
NoScheme == [monthColors |-> FALSE, colors |-> <<>>]
SchemeRaise(e) == [ok |-> FALSE, exc |-> e, scheme |-> NoScheme]
SchemeReturn(s) == [ok |-> TRUE, exc |-> "", scheme |-> s]

\* ColorScheme()
ColorScheme == [monthColors |-> FALSE, colors |-> DefaultColors]

\* for month in range(1, 13): colors[f"{name}-m{month}"] = cmyk
SetMonths(colors, name, cmyk) ==
    [k \in {Suffixed(name, month) : month \in 1..12} |-> cmyk] @@ colors

\* for name in monthCustomNames: pop the bare name, set the twelve keys
RECURSIVE PromoteNames(_, _)
PromoteNames(colors, names) ==
    IF names = <<>> THEN colors
    ELSE LET name == Head(names)
             cmyk == colors[Bare(name)]
         IN  PromoteNames(SetMonths(DictPop(colors, Bare(name)), name, cmyk),
                          Tail(names))

\* for name in monthCustomNames: colorScheme.colors.pop(name)
RECURSIVE PopNames(_, _)
PopNames(colors, names) ==
    IF names = <<>> THEN colors
    ELSE PopNames(DictPop(colors, Bare(Head(names))), Tail(names))

\* monthCustomNames of uniformMonthScheme
UniformNames ==
    <<"txtDate2", "txtWeekend", "txtWeekend2", "txtHoliday", "txtSpecialDate",
      "fillMonthHeading">>

\* monthCustomNames of coloredWeekendsHolidays and coloredWeekendsHolidaysHeader
ColoredNames ==
    <<"txtDate2", "txtWeekend", "txtWeekend2", "txtHoliday", "txtSpecialDate",
      "txtDayNamesWeekend", "fillMonthHeading">>

uniformMonthScheme ==
    SchemeReturn([monthColors |-> TRUE,
                  colors |-> PromoteNames(ColorScheme.colors, UniformNames)])

\* monthColors[month]["mainColor"] and ["lightColor"] can be read for every
\* month of range(1, 13); otherwise the loop raises KeyError
TableComplete(mColors) ==
    \A month \in 1..12 :
        /\ month \in DOMAIN mColors
        /\ {"mainColor", "lightColor"} \subseteq DOMAIN mColors[month]

\* the month loop with mainColor and lightColor exchanged
RECURSIVE ColoredMonthsSwapped(_, _, _)
ColoredMonthsSwapped(colors, mColors, month) ==
    IF month > 12 THEN colors
    ELSE LET main == mColors[month].mainColor
             light == mColors[month].lightColor
             set ==
                (Suffixed("txtWeekend", month) :> light)
             @@ (Suffixed("txtDayNamesWeekend", month) :> light)
             @@ (Suffixed("txtHoliday", month) :> light)
             @@ (Suffixed("txtWeekend2", month) :> main)
             @@ (Suffixed("txtDate2", month) :> colors[Bare("txtDate2")])
             @@ (Suffixed("txtSpecialDate", month) :> colors[Bare("txtSpecialDate")])
             @@ (Suffixed("fillMonthHeading", month) :> colors[Bare("fillMonthHeading")])
         IN  ColoredMonthsSwapped(set @@ colors, mColors, month + 1)

\* the month loop of coloredWeekendsHolidays
RECURSIVE ColoredMonths(_, _, _)
ColoredMonths(colors, mColors, month) ==
    IF month > 12 THEN colors
    ELSE LET main == mColors[month].mainColor
             light == mColors[month].lightColor
             set ==
                (Suffixed("txtWeekend", month) :> main)
             @@ (Suffixed("txtDayNamesWeekend", month) :> main)
             @@ (Suffixed("txtHoliday", month) :> main)
             @@ (Suffixed("txtWeekend2", month) :> light)
             @@ (Suffixed("txtDate2", month) :> colors[Bare("txtDate2")])
             @@ (Suffixed("txtSpecialDate", month) :> colors[Bare("txtSpecialDate")])
             @@ (Suffixed("fillMonthHeading", month) :> colors[Bare("fillMonthHeading")])
         IN  ColoredMonths(set @@ colors, mColors, month + 1)

coloredWeekendsHolidays(mColors) ==
    IF ~TableComplete(mColors) THEN SchemeRaise("KeyError")
    ELSE SchemeReturn([monthColors |-> TRUE,
                       colors |-> PopNames(ColoredMonths(ColorScheme.colors, mColors, 1),
                                           ColoredNames)])

\* the month loop of coloredWeekendsHolidaysHeader
RECURSIVE ColoredHeaderMonths(_, _, _)
ColoredHeaderMonths(colors, mColors, month) ==
    IF month > 12 THEN colors
    ELSE LET main == mColors[month].mainColor
             light == mColors[month].lightColor
             set ==
                (Suffixed("txtWeekend", month) :> main)
             @@ (Suffixed("txtDayNamesWeekend", month) :> main)
             @@ (Suffixed("txtHoliday", month) :> main)
             @@ (Suffixed("fillMonthHeading", month) :> main)
             @@ (Suffixed("txtWeekend2", month) :> light)
             @@ (Suffixed("txtDate2", month) :> colors[Bare("txtDate2")])
             @@ (Suffixed("txtSpecialDate", month) :> colors[Bare("txtSpecialDate")])
         IN  ColoredHeaderMonths(set @@ colors, mColors, month + 1)

coloredWeekendsHolidaysHeader(mColors) ==
    IF ~TableComplete(mColors) THEN SchemeRaise("KeyError")
    ELSE LET c0 == DictSet(ColorScheme.colors, Bare("txtMonthHeading"), WHITE_CMYK)
         IN  SchemeReturn([monthColors |-> TRUE,
                           colors |-> PopNames(ColoredHeaderMonths(c0, mColors, 1),
                                               ColoredNames)])


(***************************************************************************)
(* class ScMonthCalendar.  Lengths and grid counts are floats in the       *)
(* script; here they are exact fractions <<n, d>> with d > 0 in lowest     *)
(* terms, so that 6.5 rows or a column of 842/7.5 points keep their        *)
(* fractional part.                                                        *)
(***************************************************************************)
Abs(n) == IF n < 0 THEN 0 - n ELSE n

RECURSIVE Gcd(_, _)
Gcd(a, b) == IF b = 0 THEN a ELSE Gcd(b, a % b)

\* the fraction n / d in lowest terms, d # 0
Frac(n, d) ==
    LET g == Gcd(Abs(n), Abs(d))
        s == IF d < 0 THEN 0 - 1 ELSE 1
    IN  <<(s * n) \div g, (s * d) \div g>>

Num(n) == <<n, 1>>
\* the common factors are taken out before the products are formed, to
\* keep the numbers small
RatAdd(a, b) ==
    LET g == Gcd(a[2], b[2])
    IN  Frac(a[1] * (b[2] \div g) + b[1] * (a[2] \div g), (a[2] \div g) * b[2])
RatSub(a, b) == RatAdd(a, <<0 - b[1], b[2]>>)
RatMul(a, b) ==
    LET g1 == Gcd(Abs(a[1]), b[2])
        g2 == Gcd(Abs(b[1]), a[2])
    IN  Frac((a[1] \div g1) * (b[1] \div g2), (a[2] \div g2) * (b[2] \div g1))
\* a / b for b # 0
RatDiv(a, b) == RatMul(a, IF b[1] < 0 THEN <<0 - b[2], 0 - b[1]>> ELSE <<b[2], b[1]>>)
RatLess(a, b) ==
    LET g == Gcd(a[2], b[2])
    IN  a[1] * (b[2] \div g) < b[1] * (a[2] \div g)
\* math.floor, and int(), which truncates toward zero
RatFloor(a) == a[1] \div a[2]
RatInt(a) == IF a[1] < 0 THEN 0 - ((0 - a[1]) \div a[2]) ELSE a[1] \div a[2]
\* a // b for b # 0
RatFloorDiv(a, b) == Num(RatFloor(RatDiv(a, b)))


\* calendar.MONDAY and calendar.SUNDAY
MONDAY == 0
SUNDAY == 6

\* what a field holds before it has been assigned
Unset == "unset"

\* class DateStyle, class HolidayStyle, class MoonStyle, class CalendarStyle
DateStyle(textAlignment, textVerticalAlignment, fontscale, marginScale) ==
    [textAlignment |-> textAlignment, textVerticalAlignment |-> textVerticalAlignment,
     fontscale |-> fontscale, marginScale |-> marginScale]

HolidayStyle(textAlignment, textVerticalAlignment, fontscale, marginScale, enableFirstLineOffset) ==
    [textAlignment |-> textAlignment, textVerticalAlignment |-> textVerticalAlignment,
     fontscale |-> fontscale, marginScale |-> marginScale,
     enableFirstLineOffset |-> enableFirstLineOffset]

MoonStyle(cFont, textAlignment, textVerticalAlignmentSmallCell, textVerticalAlignment) ==
    [cFont |-> cFont, textAlignment |-> textAlignment,
     textVerticalAlignmentSmallCell |-> textVerticalAlignmentSmallCell,
     textVerticalAlignment |-> textVerticalAlignment]

CalendarStyle(fullRowCount, fillAllDays, headerDisplayYear, headerMonthUpperCase, headerPlacement) ==
    [fullRowCount |-> fullRowCount, fillAllDays |-> fillAllDays,
     headerDisplayYear |-> headerDisplayYear,
     headerMonthUpperCase |-> headerMonthUpperCase,
     headerPlacement |-> headerPlacement]

\* class HeaderPlacementEnum
HeaderPlacementEnum == {"TOP", "LEFT", "LEFT_CALENDAR_ALIGNED"}

\* the weekday names of the locale, Monday first: calendar.day_name[i] is
\* <<"day_name", i>>, calendar.day_abbr[i] is <<"day_abbr", i>> and its
\* upper-cased first letter followed by "|" is <<"mini", i>>
DayList(kind) == [i \in 1..7 |-> <<kind, i - 1>>]

\* dl = names[:6]; dl.insert(0, names[6])
SundayFirst(names) == <<names[7]>> \o SubSeq(names, 1, 6)

\* ScMonthCalendar.__init__: the fields of the new object.  The fields
\* that setupDocVariables assigns are Unset.
ScMonthCalendar(a) ==
    [year |-> a.year,
     months |-> a.months,
     weekNr |-> a.weekNr,
     weekNrHd |-> a.weekNrHd,
     offsetX |-> a.offsetX,
     offsetY |-> a.offsetY,
     marginX |-> a.marginX,
     marginY |-> a.marginY,
     drawImg |-> a.drawImg,
     miniCals |-> a.miniCals,
     holidaysList |-> a.holidaysList,
     drawHolidays |-> Len(a.holidaysList) # 0,
     moonsList |-> a.moonsList,
     drawMoons |-> Len(a.moonsList) # 0,
     cFont |-> a.cFont,
     promptNewDoc |-> a.promptNewDoc,
     dayOrder |-> IF a.firstDay = SUNDAY THEN SundayFirst(DayList("day_name"))
                  ELSE DayList("day_name"),
     dayOrderAbbr |-> IF a.firstDay = SUNDAY THEN SundayFirst(DayList("day_abbr"))
                      ELSE DayList("day_abbr"),
     dayOrderMini |-> IF a.firstDay = SUNDAY THEN SundayFirst(DayList("mini"))
                      ELSE DayList("mini"),
     mycal |-> a.firstDay,
     scalingFactor |-> Num(1),
     miniFactor |-> Frac(1, 7),
     smallCel |-> FALSE,
     displac |-> Num(0),
     calendarStyle |-> CalendarStyle(TRUE, FALSE, TRUE, TRUE, "TOP"),
     dateStyle |-> DateStyle("ALIGN_CENTERED", "ALIGNV_CENTERED", Frac(1, 2), Num(0)),
     dateWeek5Style |-> DateStyle("ALIGN_LEFT", "ALIGNV_TOP", Frac(1, 2), Num(0)),
     dateWeek6Style |-> DateStyle("ALIGN_RIGHT", "ALIGNV_BOTTOM", Frac(1, 2), Num(0)),
     holidayStyle |-> HolidayStyle("ALIGN_CENTERED", "ALIGNV_BOTTOM", Frac(1, 8),
                                   Frac(1, 20), TRUE),
     moonStyle |-> MoonStyle(a.cFont, "ALIGN_CENTERED", "ALIGNV_TOP", "ALIGNV_CENTERED"),
     colorScheme |-> ColorScheme,
     showProgress |-> TRUE,
     firstPage |-> TRUE,
     pageX |-> Unset, pageY |-> Unset,
     marginT |-> Unset, marginL |-> Unset, marginR |-> Unset, marginB |-> Unset,
     width |-> Unset, height |-> Unset,
     rows |-> Unset, cols |-> Unset, rowSize |-> Unset, colSize |-> Unset,
     masterPage |-> Unset]

\* the rows of the grid with every week row counted, whatever fullRowCount
GridRowsFull(c) ==
    IF c.calendarStyle.headerPlacement = "TOP" THEN Num(8) ELSE Frac(13, 2)

\* self.rows of setupDocVariables
GridRows(c) ==
    LET rows == IF c.calendarStyle.headerPlacement = "TOP" THEN Num(8) ELSE Frac(13, 2)
    IN  IF ~c.calendarStyle.fullRowCount THEN RatSub(rows, Num(1)) ELSE rows

\* self.cols of setupDocVariables
GridCols(c) ==
    IF c.calendarStyle.headerPlacement = "TOP"
    THEN (IF c.weekNr THEN Frac(15, 2) ELSE Num(7))
    ELSE (IF c.weekNr THEN Num(9) ELSE Frac(17, 2))

\* the small-cell test with the threshold at 1.34
SmallCelWide(colSize, rowSize) == RatLess(RatDiv(colSize, rowSize), Frac(134, 100))

\* (self.colSize / self.rowSize) < 1.33
SmallCel(colSize, rowSize) == RatLess(RatDiv(colSize, rowSize), Frac(133, 100))

\* _defineCalendarColors: Black, White and one defineColorCMYK call for every
\* item of the dict, written as one entry that holds the dict
defineCalendarColors(c) ==
    << <<"defineColorCMYK", Bare("Black"), <<0, 0, 0, 255>>>>,
       <<"defineColorCMYK", Bare("White"), <<0, 0, 0, 0>>>>,
       <<"defineColorCMYK-items", c.colorScheme.colors>> >>

\* setupDocVariables on a document d: [ok, cal, calls], the object after the
\* method, the calls it issued and whether it ended without an exception;
\* colSize / rowSize raises ZeroDivisionError when rowSize is 0
setupDocVariables(c, d) ==
    LET width == RatSub(RatSub(d.pageX, d.marginL), d.marginR)
        height == RatSub(RatSub(d.pageY, d.marginT), d.marginB)
        rows == GridRows(c)
        cols == GridCols(c)
        rowSize == RatDiv(RatSub(height, c.offsetY), rows)
        colSize == RatDiv(RatSub(width, c.offsetX), cols)
        c1 == [c EXCEPT !.pageX = d.pageX, !.pageY = d.pageY,
                        !.marginT = d.marginT, !.marginL = d.marginL,
                        !.marginR = d.marginR, !.marginB = d.marginB,
                        !.width = width, !.height = height,
                        !.rows = rows, !.cols = cols,
                        !.rowSize = rowSize, !.colSize = colSize]
    IN  IF rowSize = Num(0)
        THEN [ok |-> FALSE, cal |-> c1, calls |-> defineCalendarColors(c)]
        ELSE
            LET c2 == IF SmallCel(colSize, rowSize)
                      THEN [c1 EXCEPT !.smallCel = TRUE,
                                      !.dayOrder = c.dayOrderAbbr,
                                      !.scalingFactor = Frac(1, 2),
                                      !.miniFactor = Frac(3, 14)]
                      ELSE c1
                baseLine == RatDiv(rowSize, Num(4))
                h == RatAdd(RatAdd(RatMul(rowSize, Num(2)), d.marginT), c.offsetY)
                xx == RatSub(RatDiv(h, baseLine), RatFloorDiv(h, baseLine))
                y == RatAdd(RatMul(xx, baseLine), RatDiv(baseLine, Num(2)))
            IN  [ok |-> TRUE,
                 cal |-> [c2 EXCEPT !.masterPage = d.masterPage],
                 calls |->
                     defineCalendarColors(c)
                     \o << <<"setBaseLine", baseLine, RatMul(y, Frac(4, 5))>>,
                           <<"createCustomLineStyle", "grid_Line_Style", Bare("gridColor")>>,
                           <<"createCustomLineStyle", "grid_MonthHeading_Style",
                             Bare("gridMonthHeading")>>,
                           <<"createCustomLineStyle", "grid_DayNames_Style",
                             Bare("gridDayNames")>>,
                           <<"createCustomLineStyle", "grid_WeekNo_Style",
                             Bare("gridWeekNo")>> >>
                     \o << <<"createLayer", "Calendar">> >>
                     \o (IF c.drawMoons THEN << <<"createLayer", "Moons">> >> ELSE <<>>)
                     \o (IF c.drawHolidays THEN << <<"createLayer", "Holidays">> >>
                         ELSE <<>>)
                     \o (IF c.drawImg THEN << <<"createLayer", "Images">> >> ELSE <<>>)]


(***************************************************************************)
(* The drawing methods.  Each gives the sequence of calls it issues to the *)
(* drawing surface; a call is a tuple that starts with the name of the     *)
(* Scribus function.  A frame is named by the place in the loops where     *)
(* createText made it.  fwd is calendar.firstweekday(), the module-wide    *)
(* setting of the calendar module.                                         *)
(***************************************************************************)
\* concatenation of a sequence of sequences
RECURSIVE Flatten(_)
Flatten(ss) == IF ss = <<>> THEN <<>> ELSE Head(ss) \o Flatten(Tail(ss))

\* calendar.Calendar(fwd).monthdatescalendar(y, m): the weeks of the month,
\* each of seven dates
monthdatescalendar(fwd, y, m) ==
    LET first == ToOrdinal(<<y, m, 1>>)
        days == (Weekday(<<y, m, 1>>) - fwd) % 7
        weeks == (days + DaysInMonth(y, m) + 6) \div 7
    IN  [w \in 1..weeks |->
            [d \in 1..7 |-> FromOrdinal(first - days + 7 * (w - 1) + (d - 1))]]

\* date.isocalendar()[1]: the ISO week number
IsoWeek(dt) ==
    LET thursday == ToOrdinal(dt) - Weekday(dt) + 3
        y == FromOrdinal(thursday)[1]
    IN  ((thursday - ToOrdinal(<<y, 1, 1>>)) \div 7) + 1

\* _getTrailingDays that counts the cells from Monday whatever the first
\* weekday is
getTrailingDaysFromMonday(fwd, y, m) ==
    LET nCels == MonthRange(y, m)[1] + MonthRange(y, m)[2]
    IN  IF nCels > 35 THEN nCels % 7 ELSE 0

\* _getTrailingDays
getTrailingDays(fwd, y, m) ==
    LET day1 == (MonthRange(y, m)[1] - fwd) % 7
        nCels == day1 + MonthRange(y, m)[2]
    IN  IF nCels > 35 THEN nCels % 7 ELSE 0

\* _getDateStyle that looks at the week row only
getDateStyleByRow(c, wnum, cnum, trailingDays) ==
    IF c.calendarStyle.fullRowCount \/ wnum < 4
    THEN <<"par_style_Date", c.dateStyle>>
    ELSE IF wnum = 4 THEN <<"par_style_Week_5_Date", c.dateWeek5Style>>
    ELSE <<"par_style_Week_6_Date", c.dateWeek6Style>>

\* _getDateStyle: the paragraph style and the DateStyle
getDateStyle(c, wnum, cnum, trailingDays) ==
    IF c.calendarStyle.fullRowCount \/ wnum < 4 \/ cnum >= trailingDays
    THEN <<"par_style_Date", c.dateStyle>>
    ELSE IF wnum = 4 THEN <<"par_style_Week_5_Date", c.dateWeek5Style>>
    ELSE <<"par_style_Week_6_Date", c.dateWeek6Style>>

\* _isWeekend
isWeekend(fwd, colCnt) ==
    LET xx == IF fwd = 6 THEN 0 ELSE 5
    IN  colCnt = xx \/ colCnt = 6

\* f"{name}{mtc}": mtc is 0 for the empty suffix
Role(name, mtc) == IF mtc = 0 THEN Bare(name) ELSE Suffixed(name, mtc)

\* self.marginL + self.offsetX + colCnt * self.colSize
CelX(c, colCnt) == RatAdd(RatAdd(c.marginL, c.offsetX), RatMul(colCnt, c.colSize))
\* self.marginT + self.offsetY + rowCnt * self.rowSize
CelY(c, rowCnt) == RatAdd(RatAdd(c.marginT, c.offsetY), RatMul(rowCnt, c.rowSize))

\* deselectAll(); selectObject(cel); setParagraphStyle(style, cel)
Styled(style, cel) ==
    << <<"deselectAll">>, <<"selectObject", cel>>, <<"setParagraphStyle", style, cel>> >>

\* _drawDate
drawDate(c, pStyleDate, dateStyle, day, cel) ==
    << <<"setText", PyStr(day[3]), cel>> >>
    \o Styled(pStyleDate, cel)
    \o << <<"setTextVerticalAlignment", dateStyle.textVerticalAlignment, cel>>,
          <<"setTextDistances",
            RatMul(c.colSize, c.dateStyle.marginScale),
            RatMul(c.colSize, c.dateStyle.marginScale),
            RatMul(c.rowSize, c.dateStyle.marginScale),
            RatMul(c.rowSize, c.dateStyle.marginScale), cel>> >>

\* createLayout that puts the header scaling back to 1 for the new page
createLayoutFullScale(c) ==
    [cal |-> [c EXCEPT !.firstPage = FALSE, !.scalingFactor = Num(1)],
     calls |-> IF c.firstPage
               THEN << <<"newPage", 0 - 1, c.masterPage>>, <<"deletePage", 1>>,
                       <<"gotoPage", 1>> >>
               ELSE << <<"newPage", 0 - 1, c.masterPage>> >>]

\* createLayout: [cal, calls]
createLayout(c) ==
    IF c.firstPage
    THEN [cal |-> [c EXCEPT !.firstPage = FALSE],
          calls |-> << <<"newPage", 0 - 1, c.masterPage>>, <<"deletePage", 1>>,
                       <<"gotoPage", 1>> >>]
    ELSE [cal |-> c, calls |-> << <<"newPage", 0 - 1, c.masterPage>> >>]

\* createImg
createImg(c) ==
    << <<"setActiveLayer", "Images">> >>
    \o (IF c.offsetX # Num(0)
        THEN << <<"createImage", c.marginL, c.marginT, RatSub(c.offsetX, c.marginX),
                  c.height>> >>
        ELSE <<>>)
    \o (IF c.offsetY # Num(0)
        THEN << <<"createImage", RatAdd(c.marginL, c.offsetX), c.marginT,
                  RatSub(c.width, c.offsetX), RatSub(c.offsetY, c.marginY)>> >>
        ELSE <<>>)

\* createHeader on page pg for month name number m
createHeader(c, fwd, pg, m, fillMonthHeadingColor, txtDayNamesWeekendColor) ==
    LET top == c.calendarStyle.headerPlacement = "TOP"
        rowCnt == IF top THEN Frac(3, 2) ELSE Num(0)
        colCnt0 == IF top THEN Num(0) ELSE Frac(3, 2)
        hd == <<pg, "header">>
        hHeight == IF c.calendarStyle.headerPlacement = "LEFT_CALENDAR_ALIGNED"
                   THEN RatSub(RatSub(c.height, c.offsetY), RatMul(c.rowSize, Frac(1, 2)))
                   ELSE RatSub(c.height, c.offsetY)
        wk == <<pg, "weekNrHd">>
        first == IF c.weekNr THEN RatAdd(colCnt0, Frac(1, 2)) ELSE colCnt0
        dayName(j) ==
            LET colCnt == RatAdd(first, Num(j - 1))
                cel == <<pg, "dayName", j>>
            IN  << <<"createText", cel, CelX(c, colCnt), CelY(c, rowCnt), c.colSize,
                     RatMul(c.rowSize, Frac(1, 2))>>,
                   <<"setText", c.dayOrder[j], cel>> >>
                \o Styled("par_style_DayNames", cel)
                \o << <<"setTextVerticalAlignment", "ALIGNV_TOP", cel>>,
                      <<"setTextColor",
                        IF isWeekend(fwd, RatInt(RatSub(colCnt, colCnt0)))
                        THEN txtDayNamesWeekendColor ELSE Bare("txtDayNames"), cel>>,
                      <<"setFillColor", Bare("fillDayNames"), cel>>,
                      <<"setCustomLineStyle", "grid_DayNames_Style", cel>> >>
    IN  (IF top
         THEN << <<"createText", hd, CelX(c, Num(0)), CelY(c, Num(0)),
                   RatSub(c.width, c.offsetX), RatMul(c.rowSize, Frac(3, 2))>> >>
         ELSE << <<"createText", hd, CelX(c, Num(0)), RatAdd(c.marginT, c.height),
                   hHeight, RatMul(c.colSize, Frac(3, 2))>>,
                 <<"rotateObject", Num(90), hd>> >>)
        \o << <<"setText",
                <<"month_name", m, c.calendarStyle.headerMonthUpperCase,
                  IF c.calendarStyle.headerDisplayYear THEN PyStr(c.year) ELSE <<>>>>,
                hd>> >>
        \o Styled("par_style_MonthHeading", hd)
        \o << <<"setTextVerticalAlignment", "ALIGNV_CENTERED", hd>>,
              <<"setFillColor", fillMonthHeadingColor, hd>>,
              <<"setCustomLineStyle", "grid_MonthHeading_Style", hd>>,
              <<"selectObject", hd>>,
              <<"moveSelectionToBack">> >>
        \o (IF c.weekNr
            THEN << <<"createText", wk, CelX(c, Num(0)), CelY(c, rowCnt),
                      RatMul(c.colSize, Frac(1, 2)), RatMul(c.rowSize, Frac(1, 2))>>,
                    <<"setText", c.weekNrHd, wk>> >>
                 \o Styled("par_style_DayNames", wk)
                 \o << <<"setTextVerticalAlignment", "ALIGNV_TOP", wk>>,
                       <<"setTextColor", Bare("txtWeekNo"), wk>>,
                       <<"setFillColor", Bare("fillWeekNo"), wk>>,
                       <<"setCustomLineStyle", "grid_WeekNo_Style", wk>> >>
            ELSE <<>>)
        \o Flatten([j \in 1..Len(c.dayOrder) |-> dayName(j)])

\* self.marginL + self.offsetX + self.displac + colCnt * self.colSize * self.miniFactor
MiniX(c, colCnt) ==
    RatAdd(RatAdd(RatAdd(c.marginL, c.offsetX), c.displac),
           RatMul(RatMul(colCnt, c.colSize), c.miniFactor))
\* self.marginT + self.offsetY + self.rowSize / 8 * rowCnt
MiniY(c, rowCnt) ==
    RatAdd(RatAdd(c.marginT, c.offsetY), RatMul(RatDiv(c.rowSize, Num(8)), rowCnt))

\* createMiniHeader; side names the mini calendar, "prev" or "next"
createMiniHeader(c, pg, side, m, colCnt0) ==
    LET colCnt == RatDiv(colCnt0, c.miniFactor)
        hd == <<pg, side, "miniHeader">>
        dayName(j) ==
            LET cel == <<pg, side, "miniDayName", j>>
            IN  << <<"createText", cel, MiniX(c, RatAdd(colCnt, Num(j - 1))),
                     MiniY(c, Num(4)), RatMul(c.colSize, c.miniFactor),
                     RatDiv(c.rowSize, Num(8))>>,
                   <<"setText", c.dayOrderMini[j], cel>> >>
                \o Styled("par_style_Mini", cel)
                \o << <<"setTextVerticalAlignment", "ALIGNV_CENTERED", cel>>,
                      <<"selectText", "last", 1, cel>>,
                      <<"setTextColor", Bare("None"), cel>> >>
    IN  << <<"createText", hd, MiniX(c, colCnt), MiniY(c, Frac(5, 2)),
             RatMul(RatMul(c.colSize, c.miniFactor), Num(7)), RatDiv(c.rowSize, Num(8))>>,
           <<"setText", <<"month_name", m, TRUE, <<>>>>, hd>> >>
        \o Styled("par_style_Mini", hd)
        \o << <<"setTextVerticalAlignment", "ALIGNV_CENTERED", hd>> >>
        \o Flatten([j \in 1..Len(c.dayOrderMini) |-> dayName(j)])

\* the holidaysList indices x whose record is for the date day
HolidaysOn(c, day) ==
    {xx \in 1..Len(c.holidaysList) :
        /\ c.holidaysList[xx][1] = day[1]
        /\ c.holidaysList[xx][2] = PyStr(day[2])
        /\ c.holidaysList[xx][3] = PyStr(day[3])}

\* the elements of a set of numbers in increasing order
RECURSIVE Sorted(_)
Sorted(S) ==
    IF S = {} THEN <<>>
    ELSE LET lo == CHOOSE n \in S : \A k \in S : n <= k
         IN  <<lo>> \o Sorted(S \ {lo})

\* createMiniCals
createMiniCals(c, fwd, pg, side, mini_mth, miniCal, colCnt0) ==
    LET start == RatDiv(colCnt0, c.miniFactor)
        wkend == IF fwd = 6 THEN 1 ELSE 6
        cell(w, d) ==
            LET day == miniCal[w][d]
                cel == <<pg, side, "mini", w, d>>
                colCnt == RatAdd(start, Num(d))
                col == RatInt(RatSub(colCnt, RatDiv(colCnt0, c.miniFactor)))
            IN  << <<"createText", cel, MiniX(c, RatAdd(start, Num(d - 1))),
                     MiniY(c, Num(5 + (w - 1))), RatMul(c.colSize, c.miniFactor),
                     RatDiv(c.rowSize, Num(8))>> >>
                \o (IF day[2] = mini_mth
                    THEN << <<"setText", PyStr(day[3]), cel>> >>
                         \o Styled("par_style_Mini", cel)
                         \o << <<"setTextVerticalAlignment", "ALIGNV_CENTERED", cel>> >>
                    ELSE <<>>)
                \o (IF col = wkend \/ col = 7
                    THEN << <<"setTextColor", Bare("txtWeekend"), cel>> >>
                    ELSE <<>>)
                \o Flatten([i \in 1..Len(Sorted(HolidaysOn(c, day))) |->
                       IF c.holidaysList[Sorted(HolidaysOn(c, day))[i]][5] = <<"1">>
                       THEN << <<"setTextColor", Bare("txtHoliday"), cel>> >>
                       ELSE <<>>])
    IN  Flatten([w \in 1..Len(miniCal) |-> Flatten([d \in 1..7 |-> cell(w, d)])])


\* createEmptyWeekRow
createEmptyWeekRow(c, fwd, pg, rowCnt, colCnt0) ==
    LET wk == <<pg, "emptyWeekNo", rowCnt>>
        first == IF c.weekNr THEN RatAdd(colCnt0, Frac(1, 2)) ELSE colCnt0
        xx == IF fwd = 6 THEN 0 ELSE 5
        cell(y) ==
            LET colCnt == RatAdd(first, Num(y))
                cel == <<pg, "empty", rowCnt, y>>
            IN  << <<"createText", cel, CelX(c, colCnt), CelY(c, rowCnt), c.colSize,
                     c.rowSize>>,
                   <<"setFillColor",
                     IF RatInt(colCnt) = xx \/ RatInt(colCnt) = 6
                     THEN Bare("fillWeekend2") ELSE Bare("fillDate"), cel>>,
                   <<"setCustomLineStyle", "grid_Line_Style", cel>> >>
    IN  (IF c.weekNr
         THEN << <<"createText", wk, CelX(c, Num(0)), CelY(c, rowCnt),
                   RatMul(c.colSize, Frac(1, 2)), c.rowSize>>,
                 <<"setFillColor", Bare("fillWeekNo"), wk>>,
                 <<"setCustomLineStyle", "grid_WeekNo_Style", wk>> >>
         ELSE <<>>)
        \o Flatten([y \in 1..7 |-> cell(y - 1)])

\* the empty rows of "while rowCnt < self.rows"
RECURSIVE EmptyRows(_, _, _, _, _)
EmptyRows(c, fwd, pg, rowCnt, colCnt0) ==
    IF RatLess(rowCnt, c.rows)
    THEN createEmptyWeekRow(c, fwd, pg, rowCnt, colCnt0)
         \o EmptyRows(c, fwd, pg, RatAdd(rowCnt, Num(1)), colCnt0)
    ELSE <<>>

\* the holiday part of a date cell: the body of "for x in range(len(
\* self.holidaysList))" for a matching record x
HolidayCalls(c, pg, mtc, wnum, cnum, xx, weekend, colCnt, rowCnt) ==
    LET cel == <<pg, "cel", wnum, cnum>>
        txtHoliday == <<pg, "holiday", wnum, cnum, xx>>
        flo == c.holidayStyle.enableFirstLineOffset
    IN  (IF c.holidaysList[xx][5] = <<"1">>
         THEN << <<"setTextColor", Role("txtHoliday", mtc), cel>>,
                 <<"setFillColor", Bare("fillHoliday"), cel>> >>
         ELSE IF weekend
         THEN << <<"setFillColor", Bare("fillWeekend"), cel>> >>
         ELSE << <<"setTextColor", Role("txtSpecialDate", mtc), cel>>,
                 <<"setFillColor", Bare("fillSpecialDate"), cel>> >>)
        \o << <<"setActiveLayer", "Holidays">>,
              <<"createText", txtHoliday, CelX(c, colCnt), CelY(c, rowCnt), c.colSize,
                c.rowSize>>,
              <<"setText", <<flo, c.holidaysList[xx][4]>>, txtHoliday>> >>
        \o Styled("par_style_Holidays", txtHoliday)
        \o << <<"setTextDistances",
                RatMul(c.colSize, c.holidayStyle.marginScale),
                RatMul(c.colSize, c.holidayStyle.marginScale),
                RatMul(c.rowSize, c.holidayStyle.marginScale),
                RatMul(c.rowSize, c.holidayStyle.marginScale), txtHoliday>>,
              <<"setTextVerticalAlignment", c.holidayStyle.textVerticalAlignment,
                txtHoliday>> >>
        \o (IF flo
            THEN << <<"selectText", 0, 1, txtHoliday>>,
                    <<"setTextColor", Bare("None"), txtHoliday>>,
                    <<"selectText", "last", 1, txtHoliday>>,
                    <<"setTextColor", Bare("None"), txtHoliday>> >>
            ELSE <<>>)
        \o << <<"setActiveLayer", "Calendar">> >>

\* the moon part of a date cell: the body of "for x in range(len(
\* self.moonsList))" for a matching record x
MoonCalls(c, pg, mtc, wnum, cnum, xx, weekend, holidayColor, colCnt, rowCnt) ==
    LET cel == <<pg, "moon", wnum, cnum, xx>>
    IN  << <<"createText", cel, CelX(c, colCnt), CelY(c, rowCnt), c.colSize, c.rowSize>>,
           <<"setText", c.moonsList[xx][3], cel>> >>
        \o Styled("par_style_Moons", cel)
        \o << <<"setTextDistances", RatMul(c.colSize, Frac(1, 20)), Num(0),
                RatMul(c.rowSize, Frac(1, 20)), RatMul(c.rowSize, Frac(1, 20)), cel>>,
              <<"setTextAlignment", c.moonStyle.textAlignment, cel>> >>
        \o (IF c.smallCel
            THEN << <<"setTextVerticalAlignment",
                      c.moonStyle.textVerticalAlignmentSmallCell, cel>> >>
            ELSE << <<"setTextVerticalAlignment", c.moonStyle.textVerticalAlignment, cel>>,
                    <<"setFontSize", RatFloorDiv(c.rowSize, Num(3)), cel>> >>)
        \o (IF weekend THEN << <<"setTextColor", Role("txtWeekend", mtc), cel>> >>
            ELSE <<>>)
        \o (IF holidayColor THEN << <<"setTextColor", Role("txtHoliday", mtc), cel>> >>
            ELSE <<>>)

\* the moonsList indices x whose record is for the month and day of day
MoonsOn(c, day) ==
    {xx \in 1..Len(c.moonsList) :
        /\ c.moonsList[xx][1] = PyStr(day[2])
        /\ c.moonsList[xx][2] = PyStr(day[3])}

\* the pass of the day loop that takes every day for a day of the month
DayCallsAnyMonth(c, fwd, pg, month, mtc, trailingDays, wnum, cnum, day, first, colCnt0, rowCnt) ==
    LET cel == <<pg, "cel", wnum, cnum>>
        colCnt == RatAdd(first, Num(cnum))
        weekend == isWeekend(fwd, RatInt(RatSub(colCnt, colCnt0)))
        hols == Sorted(HolidaysOn(c, day))
        moons == Sorted(MoonsOn(c, day))
        holidayColor == \E i \in 1..Len(hols) : c.holidaysList[hols[i]][5] = <<"1">>
        style == getDateStyle(c, wnum, cnum, trailingDays)
    IN  << <<"createText", cel, CelX(c, colCnt), CelY(c, rowCnt), c.colSize, c.rowSize>>,
           <<"setFillColor", Bare("fillDate"), cel>>,
           <<"setCustomLineStyle", "grid_Line_Style", cel>> >>
        \o (IF day[2] \in 1..12
            THEN drawDate(c, style[1], style[2], day, cel)
                 \o (IF weekend
                     THEN << <<"setTextColor", Role("txtWeekend", mtc), cel>>,
                             <<"setFillColor", Bare("fillWeekend"), cel>> >>
                     ELSE <<>>)
                 \o Flatten([i \in 1..Len(hols) |->
                        HolidayCalls(c, pg, mtc, wnum, cnum, hols[i], weekend, colCnt,
                                     rowCnt)])
                 \o (IF ~c.calendarStyle.fullRowCount /\ wnum > 4
                     THEN << <<"setFillColor", Bare("None"), cel>> >>
                     ELSE <<>>)
                 \o (IF c.drawMoons
                     THEN << <<"setActiveLayer", "Moons">> >>
                          \o Flatten([i \in 1..Len(moons) |->
                                 MoonCalls(c, pg, mtc, wnum, cnum, moons[i], weekend,
                                           holidayColor, colCnt, rowCnt)])
                          \o << <<"setActiveLayer", "Calendar">> >>
                     ELSE <<>>)
            ELSE (IF c.calendarStyle.fillAllDays
                  THEN drawDate(c, "par_style_Date", c.dateStyle, day, cel)
                       \o << <<"setTextColor",
                               IF weekend THEN Role("txtWeekend2", mtc)
                               ELSE Role("txtDate2", mtc), cel>> >>
                  ELSE <<>>)
                 \o (IF weekend THEN << <<"setFillColor", Bare("fillWeekend2"), cel>> >>
                     ELSE <<>>))

\* one pass of "for cnum, day in enumerate(week)" that does not break
DayCalls(c, fwd, pg, month, mtc, trailingDays, wnum, cnum, day, first, colCnt0, rowCnt) ==
    LET cel == <<pg, "cel", wnum, cnum>>
        colCnt == RatAdd(first, Num(cnum))
        weekend == isWeekend(fwd, RatInt(RatSub(colCnt, colCnt0)))
        hols == Sorted(HolidaysOn(c, day))
        moons == Sorted(MoonsOn(c, day))
        holidayColor == \E i \in 1..Len(hols) : c.holidaysList[hols[i]][5] = <<"1">>
        style == getDateStyle(c, wnum, cnum, trailingDays)
    IN  << <<"createText", cel, CelX(c, colCnt), CelY(c, rowCnt), c.colSize, c.rowSize>>,
           <<"setFillColor", Bare("fillDate"), cel>>,
           <<"setCustomLineStyle", "grid_Line_Style", cel>> >>
        \o (IF day[2] = month + 1
            THEN drawDate(c, style[1], style[2], day, cel)
                 \o (IF weekend
                     THEN << <<"setTextColor", Role("txtWeekend", mtc), cel>>,
                             <<"setFillColor", Bare("fillWeekend"), cel>> >>
                     ELSE <<>>)
                 \o Flatten([i \in 1..Len(hols) |->
                        HolidayCalls(c, pg, mtc, wnum, cnum, hols[i], weekend, colCnt,
                                     rowCnt)])
                 \o (IF ~c.calendarStyle.fullRowCount /\ wnum > 4
                     THEN << <<"setFillColor", Bare("None"), cel>> >>
                     ELSE <<>>)
                 \o (IF c.drawMoons
                     THEN << <<"setActiveLayer", "Moons">> >>
                          \o Flatten([i \in 1..Len(moons) |->
                                 MoonCalls(c, pg, mtc, wnum, cnum, moons[i], weekend,
                                           holidayColor, colCnt, rowCnt)])
                          \o << <<"setActiveLayer", "Calendar">> >>
                     ELSE <<>>)
            ELSE (IF c.calendarStyle.fillAllDays
                  THEN drawDate(c, "par_style_Date", c.dateStyle, day, cel)
                       \o << <<"setTextColor",
                               IF weekend THEN Role("txtWeekend2", mtc)
                               ELSE Role("txtDate2", mtc), cel>> >>
                  ELSE <<>>)
                 \o (IF weekend THEN << <<"setFillColor", Bare("fillWeekend2"), cel>> >>
                     ELSE <<>>))

\* the week loop with "rowCnt += 1" after every week
WeekCallsOwnRow(c, fwd, pg, month, mtc, trailingDays, wnum, week, rowCnt0, colCnt0) ==
    LET rowCnt == RatAdd(rowCnt0,
                         Num(wnum))
        wk == <<pg, "weekNo", wnum>>
        first == IF c.weekNr THEN RatAdd(colCnt0, Frac(1, 2)) ELSE colCnt0
        \* the day at which the inner loop breaks
        brk(day) ==
            /\ ~c.calendarStyle.fullRowCount
            /\ day[2] \notin {month, month + 1}
            /\ wnum > 4
        drawn == {cnum \in 0..6 : \A k \in 0..cnum : ~brk(week[k + 1])}
    IN  (IF c.weekNr
         THEN << <<"createText", wk, CelX(c, Num(0)), CelY(c, rowCnt),
                   RatMul(c.colSize, Frac(1, 2)), c.rowSize>>,
                 <<"setText", PyStr(IsoWeek(week[1])), wk>>,
                 <<"setFillColor", Bare("fillWeekNo"), wk>>,
                 <<"setCustomLineStyle", "grid_WeekNo_Style", wk>> >>
              \o Styled("par_style_WeekNo", wk)
              \o << <<"setTextVerticalAlignment", "ALIGNV_CENTERED", wk>> >>
         ELSE <<>>)
        \o Flatten([i \in 1..Cardinality(drawn) |->
               DayCalls(c, fwd, pg, month, mtc, trailingDays, wnum, i - 1, week[i], first,
                        colCnt0, rowCnt)])

\* one pass of "for wnum, week in enumerate(cal)"
WeekCalls(c, fwd, pg, month, mtc, trailingDays, wnum, week, rowCnt0, colCnt0) ==
    LET rowCnt == RatAdd(rowCnt0,
                         Num(IF c.calendarStyle.fullRowCount \/ wnum < 4 THEN wnum ELSE 4))
        wk == <<pg, "weekNo", wnum>>
        first == IF c.weekNr THEN RatAdd(colCnt0, Frac(1, 2)) ELSE colCnt0
        \* the day at which the inner loop breaks
        brk(day) ==
            /\ ~c.calendarStyle.fullRowCount
            /\ day[2] \notin {month, month + 1}
            /\ wnum > 4
        drawn == {cnum \in 0..6 : \A k \in 0..cnum : ~brk(week[k + 1])}
    IN  (IF c.weekNr
         THEN << <<"createText", wk, CelX(c, Num(0)), CelY(c, rowCnt),
                   RatMul(c.colSize, Frac(1, 2)), c.rowSize>>,
                 <<"setText", PyStr(IsoWeek(week[1])), wk>>,
                 <<"setFillColor", Bare("fillWeekNo"), wk>>,
                 <<"setCustomLineStyle", "grid_WeekNo_Style", wk>> >>
              \o Styled("par_style_WeekNo", wk)
              \o << <<"setTextVerticalAlignment", "ALIGNV_CENTERED", wk>> >>
         ELSE <<>>)
        \o Flatten([i \in 1..Cardinality(drawn) |->
               DayCalls(c, fwd, pg, month, mtc, trailingDays, wnum, i - 1, week[i], first,
                        colCnt0, rowCnt)])

\* createMonthCalendar(month, cal): [cal, calls], the object after the
\* method and the calls it issued; weeks is the argument cal
createMonthCalendar(c, fwd, month, weeks) ==
    LET pg == month
        mtc == IF c.colorScheme.monthColors THEN month + 1 ELSE 0
        layout == createLayout(c)
        c1 == layout.cal
        trailingDays == getTrailingDays(fwd, c.year, month + 1)
        prevMth == IF month = 0 THEN 12 ELSE month
        prevYear == IF month = 0 THEN c.year - 1 ELSE c.year
        nextMth == IF month = 11 THEN 1 ELSE month + 2
        nextYear == IF month = 11 THEN c.year + 1 ELSE c.year
        cPrev == [c1 EXCEPT !.displac = RatMul(c.colSize, Frac(1, 20))]
        cNext == [c1 EXCEPT !.displac =
                     RatSub(RatSub(Num(0), RatMul(c.colSize, Frac(1, 20))),
                            RatMul(c.colSize,
                                   RatSub(RatMul(c.miniFactor, Num(7)), Num(1))))]
        shorten == c.smallCel /\ Len(c.weekNrHd) > 0
        c2 == [c1 EXCEPT !.displac = IF shorten THEN Frac(1, 20) ELSE Num(0),
                         !.weekNrHd = IF shorten /\ Len(c.weekNrHd) > 2
                                      THEN SubSeq(c.weekNrHd, 1, 1) ELSE c.weekNrHd]
        top == c.calendarStyle.headerPlacement = "TOP"
        rowCnt0 == IF top THEN Num(2) ELSE Frac(1, 2)
        colCnt0 == IF top THEN Num(0) ELSE Frac(3, 2)
        rowsDone == RatAdd(rowCnt0,
                           Num(IF c.calendarStyle.fullRowCount THEN Len(weeks) ELSE 4))
    IN  [cal |-> c2,
         calls |->
             layout.calls
             \o (IF c.drawImg THEN createImg(c) ELSE <<>>)
             \o << <<"setActiveLayer", "Calendar">> >>
             \o (IF c.miniCals
                 THEN createMiniHeader(cPrev, pg, "prev", prevMth, Num(0))
                      \o createMiniCals(cPrev, fwd, pg, "prev", prevMth,
                                        monthdatescalendar(c.mycal, prevYear, prevMth),
                                        Num(0))
                      \o createMiniHeader(cNext, pg, "next", nextMth,
                                          RatSub(c.cols, Num(1)))
                      \o createMiniCals(cNext, fwd, pg, "next", nextMth,
                                        monthdatescalendar(c.mycal, nextYear, nextMth),
                                        RatSub(c.cols, Num(1)))
                 ELSE <<>>)
             \o createHeader(c2, fwd, pg, month + 1, Role("fillMonthHeading", mtc),
                             Role("txtDayNamesWeekend", mtc))
             \o Flatten([w \in 1..Len(weeks) |->
                    WeekCalls(c2, fwd, pg, month, mtc, trailingDays, w - 1, weeks[w],
                              rowCnt0, colCnt0)])
             \o (IF c.calendarStyle.fullRowCount
                 THEN EmptyRows(c2, fwd, pg, rowsDone, colCnt0)
                 ELSE <<>>)]


\* the createCharStyle and createParagraphStyle calls of createCalendar
createStyles(c) ==
    LET heading == RatFloorDiv(RatMul(c.rowSize, c.scalingFactor), Frac(3, 2))
    IN  << <<"createCharStyle", "char_style_MonthHeading", c.cFont, heading,
             Bare("txtMonthHeading")>>,
           <<"createCharStyle", "char_style_DayNames", c.cFont,
             RatFloorDiv(c.rowSize, Num(4)), Bare("txtDayNames")>>,
           <<"createCharStyle", "char_style_WeekNo", c.cFont,
             RatFloorDiv(c.rowSize, Num(4)), Bare("txtWeekNo")>>,
           <<"createCharStyle", "char_style_Moons", c.moonStyle.cFont,
             RatFloorDiv(c.rowSize, Num(4)), Bare("txtDate")>>,
           <<"createCharStyle", "char_style_Holidays", c.cFont,
             RatMul(c.rowSize, c.holidayStyle.fontscale), Bare("txtDate")>>,
           <<"createCharStyle", "char_style_Date", c.cFont,
             RatMul(c.rowSize, c.dateStyle.fontscale), Bare("txtDate")>>,
           <<"createCharStyle", "char_style_Mini", c.cFont,
             RatFloorDiv(c.rowSize, Num(8)), Bare("txtDate")>>,
           <<"createParagraphStyle", "par_style_MonthHeading", "ALIGN_CENTERED",
             "char_style_MonthHeading">>,
           <<"createParagraphStyle", "par_style_DayNames", "ALIGN_CENTERED",
             "char_style_DayNames">>,
           <<"createParagraphStyle", "par_style_WeekNo", "ALIGN_CENTERED",
             "char_style_WeekNo">>,
           <<"createParagraphStyle", "par_style_Moons", c.moonStyle.textAlignment,
             "char_style_Moons">>,
           <<"createParagraphStyle", "par_style_Holidays", c.holidayStyle.textAlignment,
             "char_style_Holidays">>,
           <<"createParagraphStyle", "par_style_Date", c.dateStyle.textAlignment,
             "char_style_Date">>,
           <<"createParagraphStyle", "par_style_Week_5_Date",
             c.dateWeek5Style.textAlignment, "char_style_Date">>,
           <<"createParagraphStyle", "par_style_Week_6_Date",
             c.dateWeek6Style.textAlignment, "char_style_Date">>,
           <<"createParagraphStyle", "par_style_Mini", "ALIGN_CENTERED",
             "char_style_Mini">> >>


\* 10 ** n
RECURSIVE Pow10(_)
Pow10(n) == IF n = 0 THEN 1 ELSE 10 * Pow10(n - 1)

\* float(s) for a str s written as a plain decimal: blanks around it are
\* dropped, a sign may lead, digits with at most one point and one digit at
\* least follow; any other text of the input domain raises ValueError
PyFloat(s) ==
    LET t == StripRight(StripLeft(s))
        signed == t # <<>> /\ Head(t) \in {"+", "-"}
        ds == IF signed THEN Tail(t) ELSE t
        p == Find(ds, ".")
        whole == IF p < 0 THEN ds ELSE SliceTo(ds, p)
        part == IF p < 0 THEN <<>> ELSE SubSeq(ds, p + 2, Len(ds))
        digits == whole \o part
        mag == Frac(DigitsVal(digits), Pow10(Len(part)))
    IN  IF digits # <<>> /\ \A i \in 1..Len(digits) : IsDigit(digits[i])
        THEN [ok |-> TRUE,
              val |-> IF signed /\ Head(t) = "-" THEN RatSub(Num(0), mag) ELSE mag]
        ELSE [ok |-> FALSE, val |-> Num(0)]

\* the texts createCalendar returns and okButton_pressed shows
MiniCalsError == "Mini calendars are only supported for top header placement"
NewDocError == "Create a new document first, please"
YearError == "Year must be in the \"YYYY\" format e.g. 2020."
MarginsError == "Inner margins must be less than offsets."
FontError == "Please select a font."
MonthsError == "At least one month must be selected."
UtcError == "Time zone difference from UTC has to be an integer between -12 and +12."
None == "None"

\* okButton_pressed up to the construction of ScMonthCalendar: [ok, status,
\* raised, args]; ok with the constructor's arguments when every test
\* passed, the status line shown when one failed, raised when a float() of
\* the margin test raised ValueError, which the handler does not catch
okButtonChecks(f) ==
    LET yr == StripRight(StripLeft(f.yearVar))
        oX == PyFloat(f.offsetXVar)
        mX == PyFloat(f.marginXVar)
        oY == PyFloat(f.offsetYVar)
        mY == PyFloat(f.marginYVar)
        utc == PyInt(StripRight(StripLeft(f.utcdiffVar)))
        Stop(msg) == [ok |-> FALSE, raised |-> FALSE, status |-> msg, args |-> <<>>]
        Throw == [ok |-> FALSE, raised |-> TRUE, status |-> "", args |-> <<>>]
    IN  IF Len(yr) # 4 \/ ~PyInt(yr).ok THEN Stop(YearError)
        ELSE IF ~oX.ok \/ ~mX.ok THEN Throw
        ELSE IF RatLess(RatSub(oX.val, mX.val), Num(0)) THEN Stop(MarginsError)
        ELSE IF ~oY.ok \/ ~mY.ok THEN Throw
        ELSE IF RatLess(RatSub(oY.val, mY.val), Num(0)) THEN Stop(MarginsError)
        ELSE IF ~f.fontKnown THEN Stop(FontError)
        ELSE IF Len(f.selMonths) = 0 THEN Stop(MonthsError)
        ELSE IF ~utc.ok \/ Abs(utc.val) > 12 THEN Stop(UtcError)
        ELSE [ok |-> TRUE, raised |-> FALSE, status |-> "",
              args |-> [year |-> PyInt(yr).val,
                        months |-> f.selMonths,
                        firstDay |-> f.weekVar,
                        weekNr |-> f.weekNrVar # 0,
                        weekNrHd |-> f.weekNrHdVar,
                        offsetX |-> oX.val, marginX |-> mX.val,
                        offsetY |-> oY.val, marginY |-> mY.val,
                        drawImg |-> f.imageVar # 0,
                        miniCals |-> f.minicalsVar # 0,
                        cFont |-> f.font,
                        holidaysList |-> f.holidaysList,
                        moonsList |-> f.moonsList,
                        promptNewDoc |-> TRUE]]


(***************************************************************************)
(* Bounds and input domains.                                               *)
(***************************************************************************)
GregorianStart == 1583     \* calcEaster: "1583 and onward"
MaxEasterYear  == 4099     \* last year the Easter algorithms are run for
MeeusFirst     == 1900     \* calcEasterO: "between 1900 and 2099"
MeeusLast      == 2099
NthMax         == 5        \* calcNthWeekdayOfMonth: 0 <= n <= 5
WeekdayMax     == 6        \* calcNthWeekdayOfMonth: 0 <= weekday <= 6
NthFirstYear   == 2000     \* calcNthWeekdayOfMonth is called for the years
NthYearCount   == 28       \*   NthFirstYear .. NthFirstYear + NthYearCount - 1
HolFirstYear   == 2023     \* importHolidays is run for the years
HolYearCount   == 3        \*   HolFirstYear .. HolFirstYear + HolYearCount - 1
MaxRows        == 3        \* rows of a holidays file
MoonFirstYear  == 2024     \* importMoons is run for the years
MoonYearCount  == 2        \*   MoonFirstYear .. MoonFirstYear + MoonYearCount - 1
MaxMoonRows    == 2        \* rows of a moon phases file
UtcMax         == 12       \* the GUI accepts -12 .. 12 as the UTC difference

SeqsUpTo(S, n) == UNION {[1..k -> S] : k \in 0..n}

\* rows of a holidays file: text and major flag are kept short
HolidayRows ==
    { <<TokFixed, <<"1", "2">>, <<"2", "5">>, <<>>, <<"a">>, <<"1">>>>,
      <<TokFixed, <<"1">>, <<"1">>, <<>>, <<"b">>, <<"1">>>>,
      <<TokFixed, <<"6">>, <<"1">>, <<>>, <<"c">>, <<"0">>>>,
      <<TokFixed, <<"5">>>>,
      <<TokNWDOM, <<"1", "2">>, <<"0">>, <<"5">>, <<"d">>, <<"1">>>>,
      <<TokNWDOM, <<"1">>, <<"2">>, <<"1">>, <<"e">>, <<"0">>>>,
      <<TokNWDOM, <<"0", "1">>, <<"0">>, <<"0">>, <<"f">>, <<"0">>>>,
      <<TokVariable, TokEaster, <<"-", "4", "7">>, <<>>, <<"g">>, <<"0">>>>,
      <<TokVariable, TokEasterO, <<"4", "9">>, <<>>, <<"h">>, <<"1">>>>,
      <<TokVariable, <<"x">>, <<"1">>, <<>>, <<"i">>, <<"0">>>>,
      <<<<"#">>>>,
      <<>> }

\* rows of a moon phases file
MoonRows ==
    { <<<<"2", "0", "2", "4">>, <<"1">>, <<"3", "1">>, <<"2", "3", ":", "1", "0">>, <<"0">>>>,
      <<<<"2", "0", "2", "4">>, <<"3">>, <<"1">>, <<"0", "1", ":", "0", "0">>, <<"2">>>>,
      <<<<"2", "0", "2", "4">>, <<"0", "6">>, <<"1", "5">>, <<"1", "2", ":", "0", "0">>, <<"1">>>>,
      <<<<"2", "0", "2", "4">>, <<"1", "2">>, <<"3", "1">>, <<"2", "1", ":", "3", "0">>, <<"3">>>>,
      <<<<"2", "0", "2", "5">>, <<"1">>, <<"1">>, <<"0", "2", ":", "0", "0">>, <<"2">>>>,
      <<<<"2", "0", "2", "4">>, <<"7">>, <<"7">>, <<"0", "5", ":", "0", "0">>, <<"7">>>>,
      <<<<"2", "0", "2", "4">>, <<"4">>, <<"1", "0">>, <<"0", "1", "0", "0">>, <<"2">>>>,
      <<<<"2", "0", "2", "4">>, <<"2">>, <<"3", "0">>, <<"1", "0", ":", "0", "0">>, <<"0">>>>,
      <<>> }

(***************************************************************************)
(* The state before an operation has run.                                  *)
(***************************************************************************)
NoCall == [alg |-> "none", date |-> NoDate]
NoArgs == [n |-> 0, weekday |-> 0, month |-> 1, year |-> 1]
NoFile == [exists |-> FALSE, rows |-> <<>>]

PureIdle ==
    /\ easter = NoCall
    /\ nthArgs = NoArgs
    /\ nthRet = Raise("pending")

HolIdle ==
    /\ holidaysFile = NoFile
    /\ pc = "idle"
    /\ pos = 0
    /\ holidaysList = <<>>
    /\ warnings = 0
    /\ marks = <<>>

MoonIdle ==
    /\ myear = 0
    /\ utcdiff = 0
    /\ moonsFile = NoFile
    /\ mpc = "idle"
    /\ mpos = 0
    /\ moonsList = <<>>
    /\ mwarnings = 0
    /\ x = Unbound
    /\ mmarks = <<>>

NoTable == <<>>

ColIdle ==
    /\ monthColors = NoTable
    /\ ctor = "none"
    /\ colorScheme = SchemeRaise("pending")

NoForm == [entry |-> "none"]
NoCal == [year |-> 0]
NoDoc == [have |-> FALSE, unit |-> "none", pageX |-> <<0, 1>>, pageY |-> <<0, 1>>,
          marginT |-> <<0, 1>>, marginL |-> <<0, 1>>, marginR |-> <<0, 1>>,
          marginB |-> <<0, 1>>, masterPage |-> "none"]
NoTrailing == [year |-> 0, month |-> 0, returned |-> FALSE, ret |-> 0]

BuildIdle ==
    /\ form = NoForm
    /\ cal = NoCal
    /\ doc = NoDoc
    /\ calls = <<>>
    /\ bpc = "idle"
    /\ run = 0
    /\ originalUnit = "none"
    /\ err = "pending"
    /\ status = ""
    /\ firstweekday = 0
    /\ trailing = NoTrailing

RunIdle == returns = <<>> /\ waiting = <<>>

CalIdle == ColIdle /\ BuildIdle /\ RunIdle

(***************************************************************************)
(* SpecEaster: calcHolidays(year), then calcEaster() or calcEasterO().     *)
(***************************************************************************)
InitEaster ==
    /\ year \in GregorianStart..MaxEasterYear
    /\ PureIdle /\ HolIdle /\ MoonIdle /\ CalIdle

CalcEaster ==
    /\ easter = NoCall
    /\ easter' = [alg |-> "calcEaster", date |-> calcEaster(year)]
    /\ UNCHANGED <<year, calVars, nthArgs, nthRet, holVars, moonVars>>

CalcEasterO ==
    /\ easter = NoCall
    /\ easter' = [alg |-> "calcEasterO", date |-> calcEasterO(year)]
    /\ UNCHANGED <<year, calVars, nthArgs, nthRet, holVars, moonVars>>

NextEaster == CalcEaster \/ CalcEasterO

SpecEaster == InitEaster /\ [][NextEaster]_vars

(***************************************************************************)
(* SpecNth: one call of calcNthWeekdayOfMonth(n, weekday, month, year).    *)
(***************************************************************************)
InitNth ==
    /\ year = 0
    /\ easter = NoCall
    /\ nthArgs \in [n : -1..(NthMax + 1), weekday : -1..(WeekdayMax + 1), month : 1..12,
                    year : NthFirstYear..(NthFirstYear + NthYearCount - 1)]
    /\ nthRet = Raise("pending")
    /\ HolIdle /\ MoonIdle /\ CalIdle

CalcNth ==
    /\ nthRet = Raise("pending")
    /\ nthRet' = calcNthWeekdayOfMonth(nthArgs.n, nthArgs.weekday, nthArgs.month, nthArgs.year)
    /\ UNCHANGED <<year, calVars, easter, nthArgs, holVars, moonVars>>

NextNth == CalcNth

SpecNth == InitNth /\ [][NextNth]_vars

(***************************************************************************)
(* SpecHolidays: calcHolidays(year).importHolidays(holidaysFile).          *)
(***************************************************************************)
InitHolidays ==
    /\ year \in HolFirstYear..(HolFirstYear + HolYearCount - 1)
    /\ holidaysFile \in {NoFile} \cup
           {[exists |-> TRUE, rows |-> r] : r \in SeqsUpTo(HolidayRows, MaxRows)}
    /\ pc = "start"
    /\ pos = 0
    /\ holidaysList = <<>>
    /\ warnings = 0
    /\ marks = <<>>
    /\ PureIdle /\ MoonIdle /\ CalIdle

\* importHolidays that goes on with the list of the call before
OpenHolidaysKeepList ==
    /\ pc = "start"
    /\ holidaysList' = holidaysList
    /\ IF holidaysFile.exists
       THEN pc' = "loop" /\ warnings' = warnings
       ELSE pc' = "done" /\ warnings' = warnings + 1
    /\ UNCHANGED <<year, calVars, pureVars, holidaysFile, pos, marks, moonVars>>

\* holidaysList = list(); open(holidaysFile): a missing file warns and
\* returns the empty list
OpenHolidays ==
    /\ pc = "start"
    /\ holidaysList' = <<>>
    /\ IF holidaysFile.exists
       THEN pc' = "loop" /\ warnings' = warnings
       ELSE pc' = "done" /\ warnings' = warnings + 1
    /\ UNCHANGED <<year, calVars, pureVars, holidaysFile, pos, marks, moonVars>>

\* the iteration with "continue" in the place of "break"
ImportHolidayRowNoBreak ==
    /\ pc = "loop"
    /\ pos < Len(holidaysFile.rows)
    /\ LET body == importRow(year, holidaysFile.rows[pos + 1])
       IN  /\ holidaysList' = holidaysList \o body.recs
           /\ marks' = Append(marks, Len(holidaysList) + Len(body.recs))
           /\ warnings' = IF body.ok THEN warnings ELSE warnings + 1
    /\ pc' = "loop"
    /\ pos' = pos + 1
    /\ UNCHANGED <<year, calVars, pureVars, holidaysFile, moonVars>>

\* one iteration of "for row in csvReader": the try block, and on an
\* exception the warning and the break, csvfile.close() and the return
ImportHolidayRow ==
    /\ pc = "loop"
    /\ pos < Len(holidaysFile.rows)
    /\ LET body == importRow(year, holidaysFile.rows[pos + 1])
       IN  /\ holidaysList' = holidaysList \o body.recs
           /\ marks' = Append(marks, Len(holidaysList) + Len(body.recs))
           /\ IF body.ok
              THEN pc' = "loop" /\ warnings' = warnings
              ELSE pc' = "done" /\ warnings' = warnings + 1
    /\ pos' = pos + 1
    /\ UNCHANGED <<year, calVars, pureVars, holidaysFile, moonVars>>

\* the reader is exhausted: csvfile.close(); return holidaysList
ReturnHolidays ==
    /\ pc = "loop"
    /\ pos = Len(holidaysFile.rows)
    /\ pc' = "done"
    /\ UNCHANGED <<year, calVars, pureVars, holidaysFile, pos, holidaysList, warnings, marks, moonVars>>

NextHolidays == OpenHolidays \/ ImportHolidayRow \/ ReturnHolidays

SpecHolidays == InitHolidays /\ [][NextHolidays]_vars

(***************************************************************************)
(* SpecMoons: calcMoons(myear, utcdiff).importMoons(moonsFile).            *)
(***************************************************************************)
InitMoons ==
    /\ year = 0
    /\ myear \in MoonFirstYear..(MoonFirstYear + MoonYearCount - 1)
    /\ utcdiff \in (0 - UtcMax)..UtcMax
    /\ moonsFile \in {NoFile} \cup
           {[exists |-> TRUE, rows |-> r] : r \in SeqsUpTo(MoonRows, MaxMoonRows)}
    /\ mpc = "start"
    /\ mpos = 0
    /\ moonsList = <<>>
    /\ mwarnings = 0
    /\ x = Unbound
    /\ mmarks = <<>>
    /\ PureIdle /\ HolIdle /\ CalIdle

\* moonsList = list(); open(moonsFile): a missing file warns and returns
\* the empty list
OpenMoons ==
    /\ mpc = "start"
    /\ moonsList' = <<>>
    /\ IF moonsFile.exists
       THEN mpc' = "loop" /\ mwarnings' = mwarnings
       ELSE mpc' = "done" /\ mwarnings' = mwarnings + 1
    /\ UNCHANGED <<year, calVars, pureVars, holVars, myear, utcdiff, moonsFile, mpos, x, mmarks>>

\* one iteration of "for row in csvReader": the try block, and on an
\* exception the warning and the break, csvfile.close() and the return
ImportMoonRow ==
    /\ mpc = "loop"
    /\ mpos < Len(moonsFile.rows)
    /\ LET body == importMoonRow(myear, utcdiff, moonsFile.rows[mpos + 1], x)
       IN  /\ moonsList' = moonsList \o body.recs
           /\ mmarks' = Append(mmarks, Len(moonsList) + Len(body.recs))
           /\ x' = body.x
           /\ IF body.ok
              THEN mpc' = "loop" /\ mwarnings' = mwarnings
              ELSE mpc' = "done" /\ mwarnings' = mwarnings + 1
    /\ mpos' = mpos + 1
    /\ UNCHANGED <<year, calVars, pureVars, holVars, myear, utcdiff, moonsFile>>

\* the reader is exhausted: csvfile.close(); return moonsList
ReturnMoons ==
    /\ mpc = "loop"
    /\ mpos = Len(moonsFile.rows)
    /\ mpc' = "done"
    /\ UNCHANGED <<year, calVars, pureVars, holVars, myear, utcdiff, moonsFile, mpos, moonsList,
                   mwarnings, x, mmarks>>

NextMoons == OpenMoons \/ ImportMoonRow \/ ReturnMoons

SpecMoons == InitMoons /\ [][NextMoons]_vars

(***************************************************************************)
(* SpecTwice: importHolidays, or importMoons, called twice on one object   *)
(* with the same file.                                                     *)
(***************************************************************************)
TwiceRows == 2             \* rows of a file that is imported twice

InitTwice ==
    \/ /\ year \in HolFirstYear..(HolFirstYear + HolYearCount - 1)
       /\ holidaysFile \in {NoFile} \cup
              {[exists |-> TRUE, rows |-> r] : r \in SeqsUpTo(HolidayRows, TwiceRows)}
       /\ pc = "start"
       /\ pos = 0
       /\ holidaysList = <<>>
       /\ warnings = 0
       /\ marks = <<>>
       /\ PureIdle /\ MoonIdle /\ CalIdle
    \/ /\ year = 0
       /\ myear \in MoonFirstYear..(MoonFirstYear + MoonYearCount - 1)
       /\ utcdiff \in {0 - UtcMax, 0, UtcMax}
       /\ moonsFile \in {NoFile} \cup
              {[exists |-> TRUE, rows |-> r] : r \in SeqsUpTo(MoonRows, TwiceRows)}
       /\ mpc = "start"
       /\ mpos = 0
       /\ moonsList = <<>>
       /\ mwarnings = 0
       /\ x = Unbound
       /\ mmarks = <<>>
       /\ PureIdle /\ HolIdle /\ CalIdle

\* importHolidays has returned and is called again on the same object with
\* the same file: the file is opened anew and read from its first row
HolidaysAgain ==
    /\ pc = "done"
    /\ returns = <<>>
    /\ returns' = Append(returns, holidaysList)
    /\ pc' = "start"
    /\ pos' = 0
    /\ marks' = <<>>
    /\ UNCHANGED <<year, colVars, buildVars, waiting, pureVars, moonVars>>
    /\ UNCHANGED <<holidaysFile, holidaysList, warnings>>

\* importMoons has returned and is called again on the same object with
\* the same file: its local x is unbound again
MoonsAgain ==
    /\ mpc = "done"
    /\ returns = <<>>
    /\ returns' = Append(returns, moonsList)
    /\ mpc' = "start"
    /\ mpos' = 0
    /\ x' = Unbound
    /\ mmarks' = <<>>
    /\ UNCHANGED <<year, colVars, buildVars, waiting, pureVars, holVars>>
    /\ UNCHANGED <<myear, utcdiff, moonsFile, moonsList, mwarnings>>

NextTwice ==
    \/ OpenHolidays
    \/ ImportHolidayRow
    \/ ReturnHolidays
    \/ HolidaysAgain
    \/ OpenMoons
    \/ ImportMoonRow
    \/ ReturnMoons
    \/ MoonsAgain

SpecTwice == InitTwice /\ [][NextTwice]_vars

(***************************************************************************)
(* SpecColors: one ColorScheme constructor called with a monthColors       *)
(* table.                                                                  *)
(***************************************************************************)
\* dzzzMonthColors of start_dzzzkranj.py
dzzzMonthColors ==
    <<[mainColor |-> <<0, 28, 45, 45>>,    lightColor |-> <<0, 28, 45, 45>>],
      [mainColor |-> <<0, 56, 10, 28>>,    lightColor |-> <<0, 22, 43, 12>>],
      [mainColor |-> <<10, 0, 119, 109>>,  lightColor |-> <<22, 0, 38, 56>>],
      [mainColor |-> <<45, 0, 145, 63>>,   lightColor |-> <<15, 0, 5, 30>>],
      [mainColor |-> <<0, 7, 20, 56>>,     lightColor |-> <<0, 28, 5, 28>>],
      [mainColor |-> <<114, 10, 0, 112>>,  lightColor |-> <<30, 5, 0, 56>>],
      [mainColor |-> <<0, 73, 140, 20>>,   lightColor |-> <<0, 73, 140, 20>>],
      [mainColor |-> <<109, 2, 0, 20>>,    lightColor |-> <<5, 12, 0, 10>>],
      [mainColor |-> <<0, 79, 142, 89>>,   lightColor |-> <<0, 30, 58, 43>>],
      [mainColor |-> <<0, 10, 48, 2>>,     lightColor |-> <<0, 10, 48, 2>>],
      [mainColor |-> <<0, 0, 28, 84>>,     lightColor |-> <<0, 2, 0, 5>>],
      [mainColor |-> <<0, 193, 188, 33>>,  lightColor |-> <<0, 71, 89, 15>>]>>

\* colours a caller's table is built from
Palette == {RED_CMYK, WHITE_CMYK, LIGHT_GREY_CMYK, <<0, 28, 45, 45>>, <<114, 10, 0, 112>>}

\* a colour whose black component is moved by k
Shade(cmyk, k) == <<cmyk[1], cmyk[2], cmyk[3], (cmyk[4] + k) % 256>>

\* the tables a caller passes: the one of start_dzzzkranj.py, tables whose
\* colours change from month to month by a step, and a table that lacks
\* December
MonthTables ==
    {dzzzMonthColors}
    \cup {[m \in 1..12 |-> [mainColor |-> Shade(main, m * step),
                            lightColor |-> Shade(light, m * step)]] :
              main \in Palette, light \in Palette, step \in {0, 1, 7}}
    \cup {[m \in 1..11 |-> dzzzMonthColors[m]]}

InitColors ==
    /\ year = 0
    /\ monthColors \in MonthTables
    /\ ctor = "none"
    /\ colorScheme = SchemeRaise("pending")
    /\ BuildIdle /\ RunIdle /\ PureIdle /\ HolIdle /\ MoonIdle

DoColorScheme ==
    /\ ctor = "none"
    /\ ctor' = "ColorScheme"
    /\ colorScheme' = SchemeReturn(ColorScheme)
    /\ UNCHANGED <<year, monthColors, buildVars, runVars, pureVars, holVars, moonVars>>

DoUniformMonthScheme ==
    /\ ctor = "none"
    /\ ctor' = "uniformMonthScheme"
    /\ colorScheme' = uniformMonthScheme
    /\ UNCHANGED <<year, monthColors, buildVars, runVars, pureVars, holVars, moonVars>>

DoColoredWeekendsHolidays ==
    /\ ctor = "none"
    /\ ctor' = "coloredWeekendsHolidays"
    /\ colorScheme' = coloredWeekendsHolidays(monthColors)
    /\ UNCHANGED <<year, monthColors, buildVars, runVars, pureVars, holVars, moonVars>>

DoColoredWeekendsHolidaysHeader ==
    /\ ctor = "none"
    /\ ctor' = "coloredWeekendsHolidaysHeader"
    /\ colorScheme' = coloredWeekendsHolidaysHeader(monthColors)
    /\ UNCHANGED <<year, monthColors, buildVars, runVars, pureVars, holVars, moonVars>>

NextColors ==
    \/ DoColorScheme
    \/ DoUniformMonthScheme
    \/ DoColoredWeekendsHolidays
    \/ DoColoredWeekendsHolidaysHeader

SpecColors == InitColors /\ [][NextColors]_vars


(***************************************************************************)
(* The build: an entry point constructs ScMonthCalendar and calls          *)
(* createCalendar, which runs up to the month loop, then one month per     *)
(* step, then returns.  The entry points are okButton_pressed of the GUI   *)
(* and createCaledar of the start scripts.                                 *)
(***************************************************************************)
RestUnchanged == UNCHANGED <<year, colVars, pureVars, holVars, moonVars, trailing, returns>>

\* okButton_pressed: the tests on the form, then ScMonthCalendar(...), whose
\* __init__ ends with calendar.setfirstweekday(firstDay) and
\* progressTotal(len(months))
OkButtonPressed ==
    /\ bpc = "start"
    /\ form.entry = "gui"
    /\ LET chk == okButtonChecks(form)
       IN  IF chk.ok
           THEN /\ cal' = ScMonthCalendar(chk.args)
                /\ firstweekday' = chk.args.firstDay
                /\ calls' = Append(calls, <<"progressTotal", Len(chk.args.months)>>)
                /\ bpc' = "constructed"
                /\ status' = status
           ELSE /\ bpc' = IF chk.raised THEN "raised" ELSE "rejected"
                /\ status' = chk.status
                /\ UNCHANGED <<cal, firstweekday, calls>>
    /\ UNCHANGED <<form, doc, run, originalUnit, err>>
    /\ UNCHANGED waiting
    /\ RestUnchanged

\* createCaledar of a start script: ScMonthCalendar(...) and the
\* assignments to the fields of the object that follow it
ScriptConstruct ==
    /\ bpc = "start"
    /\ form.entry = "script"
    /\ cal' = [ScMonthCalendar(form.args) EXCEPT
                   !.showProgress = form.showProgress,
                   !.dateStyle = form.dateStyle,
                   !.holidayStyle = form.holidayStyle,
                   !.moonStyle = form.moonStyle,
                   !.calendarStyle = form.calendarStyle,
                   !.colorScheme = form.colorScheme]
    /\ firstweekday' = form.args.firstDay
    /\ calls' = Append(calls, <<"progressTotal", Len(form.args.months)>>)
    /\ bpc' = "constructed"
    /\ UNCHANGED <<form, doc, run, originalUnit, err, status>>
    /\ UNCHANGED waiting
    /\ RestUnchanged

\* the first test of createCalendar, made for one of the two placements
\* beside the calendar only
MiniCalsCalendarAligned ==
    cal.miniCals /\ cal.calendarStyle.headerPlacement = "LEFT_CALENDAR_ALIGNED"

\* the first test of createCalendar
MiniCalsElsewhere ==
    cal.miniCals /\ cal.calendarStyle.headerPlacement # "TOP"

\* createCalendar returns the mini calendars error; the entry point shows it
RejectMiniCals ==
    /\ bpc = "constructed"
    /\ MiniCalsElsewhere
    /\ err' = MiniCalsError
    /\ status' = MiniCalsError
    /\ bpc' = "returned"
    /\ UNCHANGED <<form, cal, doc, calls, run, originalUnit, firstweekday>>
    /\ UNCHANGED waiting
    /\ RestUnchanged

\* promptNewDoc = self.promptNewDoc or not haveDoc()
PromptNewDoc == cal.promptNewDoc \/ ~doc.have

\* newDocDialog() returns False: createCalendar returns the new document
\* error; the entry point shows it
DeclineNewDoc ==
    /\ bpc = "constructed"
    /\ ~MiniCalsElsewhere
    /\ PromptNewDoc
    /\ calls' = Append(calls, <<"newDocDialog", FALSE>>)
    /\ err' = NewDocError
    /\ status' = NewDocError
    /\ bpc' = "returned"
    /\ UNCHANGED <<form, cal, doc, run, originalUnit, firstweekday>>
    /\ UNCHANGED waiting
    /\ RestUnchanged

\* createCalendar from the prompt to the month loop, on the document d that
\* is current after the prompt: getUnit, setUnit, setupDocVariables, the
\* styles, run = 0
BeginOn(d, prompted) ==
    LET setup == setupDocVariables(cal, d)
        before == (IF prompted THEN << <<"newDocDialog", TRUE>> >> ELSE <<>>)
                  \o << <<"setUnit", "UNIT_POINTS">> >>
    IN  /\ originalUnit' = d.unit
        /\ doc' = [d EXCEPT !.unit = "UNIT_POINTS"]
        /\ cal' = setup.cal
        /\ IF setup.ok
           THEN /\ calls' = calls \o before \o setup.calls \o createStyles(setup.cal)
                /\ run' = 0
                /\ bpc' = "months"
                /\ err' = err
           ELSE /\ calls' = calls \o before \o setup.calls
                /\ run' = run
                /\ bpc' = "raised"
                /\ err' = "ZeroDivisionError"

\* the documents newDocDialog() can make
NewDocs ==
    {[have |-> TRUE, unit |-> "UNIT_MILLIMETERS", pageX |-> Num(595), pageY |-> Num(842),
      marginT |-> Num(40), marginL |-> Num(40), marginR |-> Num(40), marginB |-> Num(40),
      masterPage |-> "Normal"],
     [have |-> TRUE, unit |-> "UNIT_POINTS", pageX |-> Num(842), pageY |-> Num(595),
      marginT |-> Num(0), marginL |-> Num(0), marginR |-> Num(0), marginB |-> Num(0),
      masterPage |-> "Normal"]}

\* createCalendar passes its tests, newDocDialog() returning True where it
\* is asked, and reaches the month loop
BeginCalendar ==
    /\ bpc = "constructed"
    /\ ~MiniCalsElsewhere
    /\ IF PromptNewDoc
       THEN \E d \in NewDocs : BeginOn(d, TRUE)
       ELSE BeginOn(doc, FALSE)
    /\ UNCHANGED <<form, status, firstweekday>>
    /\ UNCHANGED waiting
    /\ RestUnchanged

\* one pass of "for i in self.months" that does not add to run
CreateMonthSameRun ==
    /\ bpc = "months"
    /\ run < Len(cal.months)
    /\ LET i == cal.months[run + 1]
           progress == IF cal.showProgress THEN << <<"progressSet", run>> >> ELSE <<>>
       IN  IF i + 1 \notin 1..12
           THEN /\ calls' = calls \o progress
                /\ err' = "IllegalMonthError"
                /\ bpc' = "raised"
                /\ cal' = cal
           ELSE LET month == createMonthCalendar(cal, firstweekday, i,
                                 monthdatescalendar(cal.mycal, cal.year, i + 1))
                IN  /\ calls' = calls \o progress \o month.calls
                    /\ cal' = month.cal
                    /\ UNCHANGED <<err, bpc>>
    /\ run' = run + 1
    /\ UNCHANGED <<form, doc, originalUnit, status, firstweekday>>
    /\ UNCHANGED waiting
    /\ RestUnchanged

\* one pass of "for i in self.months": run += 1, progressSet(run),
\* monthdatescalendar, which raises IllegalMonthError for a month outside
\* 1..12, and createMonthCalendar
CreateMonth ==
    /\ bpc = "months"
    /\ run < Len(cal.months)
    /\ LET i == cal.months[run + 1]
           progress == IF cal.showProgress THEN << <<"progressSet", run + 1>> >> ELSE <<>>
       IN  IF i + 1 \notin 1..12
           THEN /\ calls' = calls \o progress
                /\ err' = "IllegalMonthError"
                /\ bpc' = "raised"
                /\ cal' = cal
           ELSE LET month == createMonthCalendar(cal, firstweekday, i,
                                 monthdatescalendar(cal.mycal, cal.year, i + 1))
                IN  /\ calls' = calls \o progress \o month.calls
                    /\ cal' = month.cal
                    /\ UNCHANGED <<err, bpc>>
    /\ run' = run + 1
    /\ UNCHANGED <<form, doc, originalUnit, status, firstweekday>>
    /\ UNCHANGED waiting
    /\ RestUnchanged

\* the loop is over: setUnit(originalUnit); return None
FinishCalendar ==
    /\ bpc = "months"
    /\ run = Len(cal.months)
    /\ calls' = Append(calls, <<"setUnit", originalUnit>>)
    /\ doc' = [doc EXCEPT !.unit = originalUnit]
    /\ err' = None
    /\ bpc' = "returned"
    /\ UNCHANGED <<form, cal, run, originalUnit, status, firstweekday>>
    /\ UNCHANGED waiting
    /\ RestUnchanged

NextBuild ==
    \/ OkButtonPressed
    \/ ScriptConstruct
    \/ RejectMiniCals
    \/ DeclineNewDoc
    \/ BeginCalendar
    \/ CreateMonth
    \/ FinishCalendar


(***************************************************************************)
(* The inputs of the build.                                                *)
(***************************************************************************)
LayoutYear == 2024         \* the year the pages are laid out for
BuildFirstYear == 2023     \* the month loop is run for the years
BuildYearCount == 2        \*   BuildFirstYear .. BuildFirstYear + BuildYearCount - 1

\* a portrait document with margins, in millimetres
PortraitDoc ==
    [have |-> TRUE, unit |-> "UNIT_MILLIMETERS", pageX |-> Num(595), pageY |-> Num(842),
     marginT |-> Num(40), marginL |-> Num(40), marginR |-> Num(40), marginB |-> Num(40),
     masterPage |-> "Normal"]

\* a landscape document without margins, in points
LandscapeDoc ==
    [have |-> TRUE, unit |-> "UNIT_POINTS", pageX |-> Num(842), pageY |-> Num(595),
     marginT |-> Num(0), marginL |-> Num(0), marginR |-> Num(0), marginB |-> Num(0),
     masterPage |-> "Normal"]

\* records of calcHolidays(y).importHolidays: a major holiday on the 1st of
\* every month, a minor one on the 15th, and a second, minor, one on
\* 1 January
HolidaysOf(y) ==
    [i \in 1..25 |->
        IF i <= 12 THEN <<y, PyStr(i), <<"1">>, <<"a">>, <<"1">>>>
        ELSE IF i <= 24 THEN <<y, PyStr(i - 12), <<"1", "5">>, <<"b">>, <<"0">>>>
        ELSE <<y, <<"1">>, <<"1">>, <<"c">>, <<"0">>>>]

\* records of calcMoons.importMoons: a new moon on the 1st of every month,
\* a full moon on the 20th
MoonsOf ==
    [i \in 1..24 |->
        IF i <= 12 THEN <<PyStr(i), <<"1">>, <<"1">>>>
        ELSE <<PyStr(i - 12), <<"2", "0">>, <<"3">>>>]

\* the colour schemes the start scripts and the GUI build
Schemes ==
    {ColorScheme,
     uniformMonthScheme.scheme,
     coloredWeekendsHolidays(dzzzMonthColors).scheme,
     coloredWeekendsHolidaysHeader(dzzzMonthColors).scheme}

\* the call of a start script: the arguments of ScMonthCalendar(...) and
\* the fields it assigns afterwards
ScriptForm(y, months, firstDay, weekNr, offsets, miniCals, hols, moons, promptNewDoc, showProgress, style, scheme) ==
    [entry |-> "script",
     args |-> [year |-> y, months |-> months, firstDay |-> firstDay,
               weekNr |-> weekNr, weekNrHd |-> <<"W", "k">>,
               offsetX |-> offsets[1], marginX |-> offsets[2],
               offsetY |-> offsets[3], marginY |-> offsets[4],
               drawImg |-> miniCals, miniCals |-> miniCals, cFont |-> "Symbola Regular",
               holidaysList |-> hols, moonsList |-> moons,
               promptNewDoc |-> promptNewDoc],
     showProgress |-> showProgress,
     dateStyle |-> DateStyle("ALIGN_RIGHT", "ALIGNV_TOP", Frac(1, 4), Frac(1, 10)),
     holidayStyle |-> HolidayStyle("ALIGN_LEFT", "ALIGNV_BOTTOM", Frac(1, 8),
                                   Frac(1, 20), FALSE),
     moonStyle |-> MoonStyle("Symbola Regular", "ALIGN_LEFT", "ALIGNV_TOP",
                             "ALIGNV_CENTERED"),
     calendarStyle |-> style,
     colorScheme |-> scheme]

\* the form of the GUI, every field as the user left it
GuiForm(yearVar, offsets, fontKnown, selMonths, utcdiffVar, minicalsVar) ==
    [entry |-> "gui",
     yearVar |-> yearVar,
     offsetXVar |-> offsets[1], marginXVar |-> offsets[2],
     offsetYVar |-> offsets[3], marginYVar |-> offsets[4],
     fontKnown |-> fontKnown, selMonths |-> selMonths, utcdiffVar |-> utcdiffVar,
     weekVar |-> MONDAY, weekNrVar |-> 1, weekNrHdVar |-> <<"#">>,
     imageVar |-> 0, minicalsVar |-> minicalsVar, font |-> "Symbola Regular",
     holidaysList |-> <<>>, moonsList |-> <<>>]

ZeroOffsets == <<Num(0), Num(0), Num(0), Num(0)>>
ZeroEntries == << <<"0">>, <<"0">>, <<"0">>, <<"0">> >>

\* forms of the GUI: one that passes every test, and one for each way of
\* failing a test
GuiForms ==
    {GuiForm(<<"2", "0", "2", "4">>, ZeroEntries, TRUE, <<1>>, <<"0">>, 0),
     GuiForm(<<"2", "0", "2", "4">>, ZeroEntries, TRUE, <<1>>, <<"0">>, 1),
     GuiForm(<<" ", "2", "0", "2", "3">>,
             << <<"1", "0", ".", "5">>, <<"1", "0", ".", "5">>, <<"3", "0">>, <<"2">> >>,
             TRUE, <<0, 11>>, <<"-", "1", "2">>, 0),
     GuiForm(<<"2", "4">>, ZeroEntries, TRUE, <<1>>, <<"0">>, 0),
     GuiForm(<<"2", "0", "2", "4">>,
             << <<"1", "0">>, <<"1", "0", ".", "5">>, <<"0">>, <<"0">> >>,
             TRUE, <<1>>, <<"0">>, 0),
     GuiForm(<<"2", "0", "2", "4">>,
             << <<"0">>, <<"0">>, <<"0">>, <<"9", "0", ".", "7", "1">> >>,
             TRUE, <<1>>, <<"0">>, 0),
     GuiForm(<<"2", "0", "2", "4">>,
             << <<"-", "5">>, <<"-", "2">>, <<"0">>, <<"0">> >>,
             TRUE, <<1>>, <<"0">>, 0),
     GuiForm(<<"2", "0", "2", "4">>,
             << <<"a">>, <<"0">>, <<"0">>, <<"0">> >>, TRUE, <<1>>, <<"0">>, 0),
     GuiForm(<<"2", "0", "2", "4">>,
             << <<"0">>, <<"0">>, <<"0">>, <<>> >>, TRUE, <<1>>, <<"0">>, 0),
     GuiForm(<<"2", "0", "2", "4">>, ZeroEntries, FALSE, <<1>>, <<"0">>, 0),
     GuiForm(<<"2", "0", "2", "4">>, ZeroEntries, TRUE, <<>>, <<"0">>, 0),
     GuiForm(<<"2", "0", "2", "4">>, ZeroEntries, TRUE, <<1>>, <<"1", "3">>, 0)}

\* the state in which an entry point starts on form f with document d
\* current: calendar.firstweekday() is 0, the default of the calendar module
BuildStart(f, d) ==
    /\ year = 0
    /\ form = f
    /\ doc = d
    /\ cal = NoCal
    /\ calls = <<>>
    /\ bpc = "start"
    /\ run = 0
    /\ originalUnit = "none"
    /\ err = "pending"
    /\ status = ""
    /\ firstweekday = 0
    /\ trailing = NoTrailing
    /\ ColIdle /\ RunIdle /\ PureIdle /\ HolIdle /\ MoonIdle

(***************************************************************************)
(* SpecLayout: one page, for every month of LayoutYear, under every colour *)
(* scheme, with and without mini calendars, holidays, moons and the days   *)
(* of the adjacent months.                                                 *)
(***************************************************************************)
\* the other options of a page, a few combinations of them
LayoutProfiles ==
    {[firstDay |-> MONDAY, weekNr |-> TRUE, fullRowCount |-> TRUE,
      headerPlacement |-> "TOP", doc |-> LandscapeDoc],
     [firstDay |-> SUNDAY, weekNr |-> FALSE, fullRowCount |-> FALSE,
      headerPlacement |-> "TOP", doc |-> PortraitDoc],
     [firstDay |-> MONDAY, weekNr |-> TRUE, fullRowCount |-> FALSE,
      headerPlacement |-> "LEFT", doc |-> LandscapeDoc],
     [firstDay |-> SUNDAY, weekNr |-> FALSE, fullRowCount |-> TRUE,
      headerPlacement |-> "LEFT_CALENDAR_ALIGNED", doc |-> PortraitDoc]}

InitLayout ==
    \/ \E p \in LayoutProfiles, scheme \in Schemes, m \in 0..11,
          miniCals \in BOOLEAN, filled \in BOOLEAN :
          BuildStart(
              ScriptForm(LayoutYear, <<m>>, p.firstDay, p.weekNr, ZeroOffsets, miniCals,
                         IF filled THEN HolidaysOf(LayoutYear) ELSE <<>>,
                         IF filled THEN MoonsOf ELSE <<>>,
                         FALSE, FALSE,
                         CalendarStyle(p.fullRowCount, filled, TRUE, filled,
                                       p.headerPlacement),
                         scheme),
              p.doc)
    \/ \E f \in GuiForms, d \in {NoDoc, PortraitDoc} : BuildStart(f, d)

SpecLayout == InitLayout /\ [][NextBuild]_vars


(***************************************************************************)
(* SpecGeometry: the build on documents and offsets that put the ratio of  *)
(* a cell on both sides of the small-cell threshold, for every header      *)
(* placement, with and without week numbers and the full row count.        *)
(***************************************************************************)
\* a document of w x h points without margins
PlainDoc(w, h) ==
    [have |-> TRUE, unit |-> "UNIT_POINTS", pageX |-> Num(w), pageY |-> Num(h),
     marginT |-> Num(0), marginL |-> Num(0), marginR |-> Num(0), marginB |-> Num(0),
     masterPage |-> "Normal"]

\* under the header on top, 7 columns and 8 rows, the first three have
\* cells of ratio 1.32, 1.33 and 1.34
GeometryDocs ==
    {PlainDoc(231, 200), PlainDoc(931, 800), PlainDoc(469, 400),
     PlainDoc(842, 595), PortraitDoc}

\* offsetX, marginX, offsetY, marginY: none, some, and an offsetY that
\* takes the whole height of the 200 point documents
GeometryOffsets ==
    {ZeroOffsets,
     <<Frac(21, 2), Num(0), Num(20), Num(5)>>,
     <<Num(0), Num(0), Num(200), Num(0)>>}

InitGeometry ==
    \/ \E d \in GeometryDocs, o \in GeometryOffsets, placement \in HeaderPlacementEnum,
          weekNr \in BOOLEAN, fullRowCount \in BOOLEAN, miniCals \in BOOLEAN :
          BuildStart(
              ScriptForm(BuildFirstYear, <<3>>, IF weekNr THEN MONDAY ELSE SUNDAY, weekNr,
                         o, miniCals, <<>>, <<>>, FALSE, FALSE,
                         CalendarStyle(fullRowCount, FALSE, FALSE, FALSE, placement),
                         ColorScheme),
              d)
    \/ \E f \in GuiForms, d \in {NoDoc, PortraitDoc} : BuildStart(f, d)

SpecGeometry == InitGeometry /\ [][NextBuild]_vars


(***************************************************************************)
(* SpecTrailing: _getTrailingDays on an object constructed with each first *)
(* weekday, for every month of a 28-year cycle of the calendar.            *)
(***************************************************************************)
TrailFirstYear == 2000     \* _getTrailingDays is called for the years
TrailYearCount == 28       \*   TrailFirstYear .. TrailFirstYear + TrailYearCount - 1

\* the arguments of ScMonthCalendar(y, [m - 1], firstDay)
TrailingArgs(y, m, firstDay) ==
    [year |-> y, months |-> <<m - 1>>, firstDay |-> firstDay,
     weekNr |-> TRUE, weekNrHd |-> <<"W", "k">>,
     offsetX |-> Num(0), marginX |-> Num(0), offsetY |-> Num(0), marginY |-> Num(0),
     drawImg |-> TRUE, miniCals |-> TRUE, cFont |-> "Symbola Regular",
     holidaysList |-> <<>>, moonsList |-> <<>>, promptNewDoc |-> TRUE]

\* the object is constructed: calendar.setfirstweekday(firstDay) and
\* progressTotal(1) are done
InitTrailing ==
    /\ year = 0
    /\ \E y \in TrailFirstYear..(TrailFirstYear + TrailYearCount - 1), m \in 1..12,
          firstDay \in MONDAY..SUNDAY :
          /\ cal = ScMonthCalendar(TrailingArgs(y, m, firstDay))
          /\ firstweekday = firstDay
          /\ trailing = [year |-> y, month |-> m, returned |-> FALSE, ret |-> 0]
    /\ form = NoForm
    /\ doc = NoDoc
    /\ calls = << <<"progressTotal", 1>> >>
    /\ bpc = "idle"
    /\ run = 0
    /\ originalUnit = "none"
    /\ err = "pending"
    /\ status = ""
    /\ ColIdle /\ RunIdle /\ PureIdle /\ HolIdle /\ MoonIdle

\* self._getTrailingDays(year, month)
GetTrailingDays ==
    /\ ~trailing.returned
    /\ trailing' = [trailing EXCEPT
                        !.returned = TRUE,
                        !.ret = getTrailingDays(firstweekday, trailing.year, trailing.month)]
    /\ UNCHANGED <<year, colVars, runVars, pureVars, holVars, moonVars>>
    /\ UNCHANGED <<form, cal, doc, calls, bpc, run, originalUnit, err, status, firstweekday>>

NextTrailing == GetTrailingDays

SpecTrailing == InitTrailing /\ [][NextTrailing]_vars


(***************************************************************************)
(* SpecBuild: the build from both entry points, over lists of months of    *)
(* several lengths, with and without progress, a document and the prompt,  *)
(* and with the offsets and margins of the start scripts.  The builds with *)
(* progress are the ones with holidays and moons.                          *)
(***************************************************************************)
\* lists of months: none, one, the three of start_dzzzkranj.py, a list
\* that is not in calendar order, one month twice, and a list whose second
\* month does not exist
MonthLists ==
    {<<>>, <<0>>, <<4, 6, 7>>, <<11, 0>>, <<2, 2>>, <<5, 12>>}

\* offsetX, marginX, offsetY, marginY of start_dzzzkranj.py
DzzzOffsets == <<Frac(12359, 100), Num(0), Num(0), Frac(9071, 100)>>

InitBuild ==
    \/ \E y \in BuildFirstYear..(BuildFirstYear + BuildYearCount - 1),
          months \in MonthLists, o \in {ZeroOffsets, DzzzOffsets},
          placement \in {"TOP", "LEFT"}, miniCals \in BOOLEAN,
          promptNewDoc \in BOOLEAN, showProgress \in BOOLEAN,
          d \in {NoDoc, PortraitDoc} :
          BuildStart(
              ScriptForm(y, months, MONDAY, placement = "TOP", o, miniCals,
                         IF showProgress THEN HolidaysOf(y) ELSE <<>>,
                         IF showProgress THEN MoonsOf ELSE <<>>,
                         promptNewDoc, showProgress,
                         CalendarStyle(FALSE, TRUE, FALSE, FALSE, placement),
                         ColorScheme),
              d)
    \/ \E f \in GuiForms, d \in {NoDoc, PortraitDoc, LandscapeDoc} : BuildStart(f, d)

SpecBuild == InitBuild /\ [][NextBuild]_vars


(***************************************************************************)
(* SpecCells: one page for a month of four, five or six week rows, for     *)
(* every first weekday, header placement and week-number setting, with     *)
(* and without the full row count and the days of the adjacent months, and *)
(* with two holidays on one day in both orders.                            *)
(***************************************************************************)
CellsYear == 2021          \* the year the cells are laid out for
\* February, May and August: in 2021 they begin on a Monday, a Saturday
\* and a Sunday
CellMonths == {1, 4, 7}
\* calendar.MONDAY .. calendar.SUNDAY
FirstDays == MONDAY..SUNDAY

\* records of importHolidays for a file with two holidays on the 1st of
\* every month, a major and a minor one, in either order, a minor one on
\* the 15th, and a major one on 31 May and on 31 August
CellHolidays(y, majorFirst) ==
    [i \in 1..38 |->
        IF i <= 12
        THEN <<y, PyStr(i), <<"1">>, <<"a">>, IF majorFirst THEN <<"1">> ELSE <<"0">>>>
        ELSE IF i <= 24
        THEN <<y, PyStr(i - 12), <<"1">>, <<"b">>, IF majorFirst THEN <<"0">> ELSE <<"1">>>>
        ELSE IF i <= 36
        THEN <<y, PyStr(i - 24), <<"1", "5">>, <<"c">>, <<"0">>>>
        ELSE <<y, IF i = 37 THEN <<"5">> ELSE <<"8">>, <<"3", "1">>, <<"d">>, <<"1">>>>]

InitCells ==
    \E firstDay \in FirstDays, weekNr \in BOOLEAN, fullRowCount \in BOOLEAN,
       fillAllDays \in BOOLEAN, placement \in HeaderPlacementEnum, m \in CellMonths,
       majorFirst \in BOOLEAN :
       BuildStart(
           ScriptForm(CellsYear, <<m>>, firstDay, weekNr, ZeroOffsets, FALSE,
                      CellHolidays(CellsYear, majorFirst), MoonsOf, FALSE, FALSE,
                      CalendarStyle(fullRowCount, fillAllDays, TRUE, FALSE, placement),
                      ColorScheme),
           LandscapeDoc)

NextCells ==
    \/ ScriptConstruct
    \/ BeginCalendar
    \/ CreateMonth
    \/ FinishCalendar

SpecCells == InitCells /\ [][NextCells]_vars



(***************************************************************************)
(* SpecInterfere: a script that constructs a second ScMonthCalendar, for   *)
(* another month and the other first weekday, before it runs               *)
(* createCalendar on the two objects, in either order.                     *)
(***************************************************************************)
InitInterfere ==
    \E firstDay \in {MONDAY, SUNDAY}, m \in CellMonths, fullRowCount \in BOOLEAN,
       fillAllDays \in BOOLEAN :
       BuildStart(
           ScriptForm(CellsYear, <<m>>, firstDay, FALSE, ZeroOffsets, FALSE,
                      CellHolidays(CellsYear, FALSE), MoonsOf, FALSE, FALSE,
                      CalendarStyle(fullRowCount, fillAllDays, TRUE, FALSE, "TOP"),
                      ColorScheme),
           LandscapeDoc)

\* a second ScMonthCalendar(...) before any createCalendar: __init__ ends
\* with calendar.setfirstweekday(firstDay); the script then takes either
\* object to run first
ConstructAnother ==
    /\ bpc = "constructed"
    /\ waiting = <<>>
    /\ Len(calls) = 1
    /\ \E m \in CellMonths \ {cal.months[1]}, first \in BOOLEAN :
           LET firstDay == IF cal.mycal = MONDAY THEN SUNDAY ELSE MONDAY
               another ==
                   [ScMonthCalendar([form.args EXCEPT !.firstDay = firstDay,
                                                      !.months = <<m>>]) EXCEPT
                        !.showProgress = form.showProgress,
                        !.dateStyle = form.dateStyle,
                        !.holidayStyle = form.holidayStyle,
                        !.moonStyle = form.moonStyle,
                        !.calendarStyle = form.calendarStyle,
                        !.colorScheme = form.colorScheme]
           IN  /\ firstweekday' = firstDay
               /\ calls' = Append(calls, <<"progressTotal", 1>>)
               /\ cal' = IF first THEN another ELSE cal
               /\ waiting' = IF first THEN <<cal>> ELSE <<another>>
    /\ UNCHANGED <<form, doc, bpc, run, originalUnit, err, status>>
    /\ RestUnchanged

\* createCalendar of the first object has returned: the script goes on to
\* the other object
RunWaiting ==
    /\ bpc = "returned"
    /\ waiting # <<>>
    /\ cal' = Head(waiting)
    /\ waiting' = Tail(waiting)
    /\ bpc' = "constructed"
    /\ err' = "pending"
    /\ UNCHANGED <<form, doc, calls, run, originalUnit, status, firstweekday>>
    /\ RestUnchanged

NextInterfere ==
    \/ ScriptConstruct
    \/ ConstructAnother
    \/ BeginCalendar
    \/ CreateMonth
    \/ FinishCalendar
    \/ RunWaiting

SpecInterfere == InitInterfere /\ [][NextInterfere]_vars



(***************************************************************************)
(* Reference calendar arithmetic for the properties below.  It shares no   *)
(* definition with the model above: month lengths from a table, dates      *)
(* stepped from month to month, weekdays by Zeller's congruence.           *)
(***************************************************************************)
RefMonthLength(y, m) ==
    LET leap == IF y % 100 = 0 THEN y % 400 = 0 ELSE y % 4 = 0
    IN  <<31, IF leap THEN 29 ELSE 28, 31, 30, 31, 30, 31, 31, 30, 31, 30, 31>>[m]

RefValid(y, m, d) == m \in 1..12 /\ d >= 1 /\ d <= RefMonthLength(y, m)

NextDay(dt) ==
    IF dt[3] < RefMonthLength(dt[1], dt[2]) THEN <<dt[1], dt[2], dt[3] + 1>>
    ELSE IF dt[2] < 12 THEN <<dt[1], dt[2] + 1, 1>>
    ELSE <<dt[1] + 1, 1, 1>>

PrevDay(dt) ==
    IF dt[3] > 1 THEN <<dt[1], dt[2], dt[3] - 1>>
    ELSE IF dt[2] > 1 THEN <<dt[1], dt[2] - 1, RefMonthLength(dt[1], dt[2] - 1)>>
    ELSE <<dt[1] - 1, 12, 31>>

\* dt moved by k days, a month at a time
RECURSIVE AddDays(_, _)
AddDays(dt, k) ==
    IF dt[3] + k > RefMonthLength(dt[1], dt[2])
    THEN AddDays(NextDay(<<dt[1], dt[2], RefMonthLength(dt[1], dt[2])>>),
                 dt[3] + k - RefMonthLength(dt[1], dt[2]) - 1)
    ELSE IF dt[3] + k < 1
    THEN AddDays(PrevDay(<<dt[1], dt[2], 1>>), dt[3] + k)
    ELSE <<dt[1], dt[2], dt[3] + k>>

\* Zeller's congruence, turned to Monday = 0 .. Sunday = 6
ZellerWeekday(dt) ==
    LET yy == IF dt[2] < 3 THEN dt[1] - 1 ELSE dt[1]
        mm == IF dt[2] < 3 THEN dt[2] + 12 ELSE dt[2]
        K == yy % 100
        J == yy \div 100
        h == (dt[3] + ((13 * (mm + 1)) \div 5) + K + (K \div 4) + (J \div 4) + 5 * J) % 7
    IN  (h + 5) % 7

\* the first Sunday strictly after dt
SundayAfter(dt) ==
    AddDays(dt, CHOOSE k \in 1..7 : ZellerWeekday(AddDays(dt, k)) = 6)

\* the Gregorian paschal full moon from the epact (Lilius and Clavius, as in
\* Knuth, The Art of Computer Programming, 1.3.2 exercise 14)
PaschalFullMoon(Y) ==
    LET G == (Y % 19) + 1
        C == (Y \div 100) + 1
        X == ((3 * C) \div 4) - 12
        Z == ((8 * C + 5) \div 25) - 5
        E0 == (11 * G + 20 + Z - X) % 30
        E == IF (E0 = 25 /\ G > 11) \/ E0 = 24 THEN E0 + 1 ELSE E0
        N == IF 44 - E < 21 THEN 74 - E ELSE 44 - E
    IN  IF N > 31 THEN <<Y, 4, N - 31>> ELSE <<Y, 3, N>>

\* Western Easter: the Sunday after the paschal full moon
ReferenceEaster(Y) == SundayAfter(PaschalFullMoon(Y))

\* Eastern Easter as a Gregorian date: the Sunday after the Julian paschal
\* full moon, 21 March + (19 (Y mod 19) + 15) mod 30 of the Julian calendar;
\* from 1900 to 2099 a Julian date is 13 days behind the Gregorian one
JulianEasterGregorian(Y) ==
    SundayAfter(AddDays(<<Y, 3, 21>>, ((19 * (Y % 19) + 15) % 30) + 13))

\* the day of the n-th weekday wd of month m of year y (n = 0: the last one),
\* 0 when the month has no such day
RefNthDay(n, wd, m, y) ==
    LET days == {d \in 1..RefMonthLength(y, m) : ZellerWeekday(<<y, m, d>>) = wd}
        nth == {d \in days : Cardinality({e \in days : e <= d}) = n}
    IN  IF n = 0 THEN CHOOSE d \in days : \A e \in days : e <= d
        ELSE IF nth = {} THEN 0
        ELSE CHOOSE d \in nth : TRUE

(***************************************************************************)
(* Properties of calcEaster and calcEasterO (SpecEaster).                  *)
(***************************************************************************)
\* C1: for every year from 1583 on, calcEaster returns the Western Easter
\* date of its year: the Sunday after the paschal full moon, a Sunday
\* between 22 March and 25 April; 2024 gives 2024-03-31, 2000 gives
\* 2000-04-23.
C1_EasterIsWesternEaster ==
    easter.alg = "calcEaster" =>
        /\ easter.date = ReferenceEaster(year)
        /\ ZellerWeekday(easter.date) = 6
        /\ easter.date[1] = year
        /\ \/ easter.date[2] = 3 /\ easter.date[3] >= 22
           \/ easter.date[2] = 4 /\ easter.date[3] <= 25
        /\ (year = 2024 => easter.date = <<2024, 3, 31>>)
        /\ (year = 2000 => easter.date = <<2000, 4, 23>>)

C1_Witness ==
    /\ easter.alg = "calcEaster"
    /\ year = 2024
    /\ easter.date = <<2024, 3, 31>>

\* C2: for every year in 1900..2099, calcEasterO returns the Easter date of
\* the Julian computus as a Gregorian date (Julian date plus 13 days), in
\* April as well as in May: a Sunday of that year.
C2_EasterOIsJulianEaster ==
    (easter.alg = "calcEasterO" /\ year \in MeeusFirst..MeeusLast) =>
        /\ easter.date = JulianEasterGregorian(year)
        /\ ZellerWeekday(easter.date) = 6
        /\ easter.date[1] = year

(***************************************************************************)
(* Properties of calcNthWeekdayOfMonth (SpecNth).                          *)
(***************************************************************************)
NthCalled == nthRet # Raise("pending")

\* C3: with n = 0 ("last") and a weekday in 0..6 the call never raises and
\* returns the largest day of the month that falls on that weekday.
C3_LastWeekdayOfMonth ==
    (NthCalled /\ nthArgs.n = 0 /\ nthArgs.weekday \in 0..6) =>
        /\ nthRet.ok
        /\ LET days == {d \in 1..RefMonthLength(nthArgs.year, nthArgs.month) :
                            ZellerWeekday(<<nthArgs.year, nthArgs.month, d>>) = nthArgs.weekday}
           IN  /\ nthRet.date[3] \in days
               /\ \A d \in days : d <= nthRet.date[3]
        /\ nthRet.date[1] = nthArgs.year
        /\ nthRet.date[2] = nthArgs.month

C3_Witness ==
    /\ NthCalled
    /\ nthArgs.n = 0
    /\ nthRet.ok
    /\ nthRet.date[3] = 29
    /\ nthArgs.month = 2

\* C4: for n in 1..5 the call returns day = firstOccurrenceDay + (n-1)*7,
\* firstOccurrenceDay in 1..7 being the first day of the month on the
\* requested weekday; it raises IndexError, returning no date, exactly when
\* that day exceeds the month's day count; n outside 0..5 and weekday outside
\* 0..6 are rejected.
C4_NthWeekdayOfMonth ==
    NthCalled =>
        IF nthArgs.n \notin 0..5 \/ nthArgs.weekday \notin 0..6
        THEN ~nthRet.ok /\ nthRet.date = NoDate
        ELSE nthArgs.n \in 1..5 =>
            LET len == RefMonthLength(nthArgs.year, nthArgs.month)
                first == CHOOSE d \in 1..7 :
                    /\ ZellerWeekday(<<nthArgs.year, nthArgs.month, d>>) = nthArgs.weekday
                    /\ \A e \in 1..(d - 1) :
                           ZellerWeekday(<<nthArgs.year, nthArgs.month, e>>) # nthArgs.weekday
                day == first + (nthArgs.n - 1) * 7
            IN  /\ nthRet.ok <=> day <= len
                /\ nthRet.ok => nthRet.date = <<nthArgs.year, nthArgs.month, day>>
                /\ ~nthRet.ok => nthRet.exc = "IndexError" /\ nthRet.date = NoDate

C4_Witness ==
    /\ NthCalled
    /\ nthArgs.n = 5
    /\ nthArgs.weekday \in 0..6
    /\ nthArgs.month = 2
    /\ nthArgs.year = 2024
    /\ ~nthRet.ok
    /\ nthRet.exc = "IndexError"

(***************************************************************************)
(* Properties of importHolidays (SpecHolidays).                            *)
(***************************************************************************)
\* the records row i of the file appended to holidaysList
RowRecs(i) == SubSeq(holidaysList, (IF i = 1 THEN 0 ELSE marks[i - 1]) + 1, marks[i])

\* row i raised: the warning was issued and the loop left at that row
RowFailed(i) == pc = "done" /\ holidaysFile.exists /\ warnings > 0 /\ i = pos

CountYear(recs, yy) == Cardinality({j \in 1..Len(recs) : recs[j][1] = yy})

B2N(b) == IF b THEN 1 ELSE 0

\* a fixed or nWDOM row in the source format: six fields, numbers in range
DatedRow(row) ==
    /\ Len(row) = 6
    /\ row[1] \in {TokFixed, TokNWDOM}
    /\ PyInt(row[2]).ok /\ PyInt(row[2]).val \in 1..12
    /\ PyInt(row[3]).ok
    /\ row[1] = TokFixed => RefValid(2024, PyInt(row[2]).val, PyInt(row[3]).val)
    /\ row[1] = TokNWDOM =>
           /\ PyInt(row[3]).val \in 0..6
           /\ PyInt(row[4]).ok /\ PyInt(row[4]).val \in 0..5

\* the record an nWDOM row stands for in year yy, <<>> when the month of
\* that year has no such day
RefNWDOMRecord(row, yy) ==
    LET m == PyInt(row[2]).val
        d == RefNthDay(PyInt(row[4]).val, PyInt(row[3]).val, m, yy)
    IN  IF d = 0 THEN <<>> ELSE <<<<yy, PyStr(m), PyStr(d), row[5], row[6]>>>>

\* C5 as stated: a fixed or nWDOM row resolved at year Y emits exactly one
\* record for Y, plus one for Y-1 iff its month is 12, plus one for Y+1 iff
\* its month is 1.
C5_OneRecordPerYear ==
    \A i \in 1..pos :
        LET row == holidaysFile.rows[i]
            recs == RowRecs(i)
        IN  DatedRow(row) =>
                /\ CountYear(recs, year) = 1
                /\ CountYear(recs, year - 1) = B2N(PyInt(row[2]).val = 12)
                /\ CountYear(recs, year + 1) = B2N(PyInt(row[2]).val = 1)
                /\ Len(recs) = 1 + B2N(PyInt(row[2]).val \in {1, 12})

\* C5 amended: the neighbouring year is added iff the month field is the
\* text "12" (year - 1) or "1" (year + 1).  A fixed row emits its records
\* always.  An nWDOM row emits a record only for a year whose month has the
\* requested occurrence, the day being computed in that year's calendar; if
\* the requested year has none the row emits nothing, if only the
\* neighbouring year has none the row emits the requested year's record
\* alone, and in both cases the row ends the import with a warning.  A
\* December fixed row resolved at Y and at Y+1 yields three records whose
\* year is Y-1 or Y.
C5_RecordsOfDatedRow ==
    \A i \in 1..pos :
        LET row == holidaysFile.rows[i]
            recs == RowRecs(i)
            dec == row[2] = <<"1", "2">>
            jan == row[2] = <<"1">>
            nb  == IF dec THEN year - 1 ELSE year + 1
        IN  DatedRow(row) =>
              IF row[1] = TokFixed
              THEN /\ CountYear(recs, year) = 1
                   /\ CountYear(recs, year - 1) = B2N(dec)
                   /\ CountYear(recs, year + 1) = B2N(jan)
                   /\ Len(recs) = 1 + B2N(dec \/ jan)
                   /\ \A j \in 1..Len(recs) : Tail(recs[j]) = <<row[2], row[3], row[5], row[6]>>
                   /\ ~RowFailed(i)
                   /\ dec => LET again == importRow(year + 1, row).recs
                             IN  CountYear(recs \o again, year - 1)
                                 + CountYear(recs \o again, year) = 3
              ELSE LET own == RefNWDOMRecord(row, year)
                       other == IF dec \/ jan THEN RefNWDOMRecord(row, nb) ELSE <<>>
                   IN  IF own = <<>> THEN recs = <<>> /\ RowFailed(i)
                       ELSE /\ recs = own \o other
                            /\ RowFailed(i) <=> ((dec \/ jan) /\ other = <<>>)

\* a December nWDOM row that emitted both records, with different days
C5_Witness ==
    \E i \in 1..pos :
        /\ DatedRow(holidaysFile.rows[i])
        /\ holidaysFile.rows[i][1] = TokNWDOM
        /\ holidaysFile.rows[i][2] = <<"1", "2">>
        /\ Len(RowRecs(i)) = 2
        /\ RowRecs(i)[1][1] = year
        /\ RowRecs(i)[2][1] = year - 1
        /\ RowRecs(i)[1][3] # RowRecs(i)[2][3]

\* a variable row in the source format: an Easter base and a numeric delta
EasterRow(row) ==
    /\ Len(row) = 6
    /\ row[1] = TokVariable
    /\ row[2] \in {TokEaster, TokEasterO}
    /\ PyInt(row[3]).ok

\* C6: a variable row with base easter or easterO and offset deltaDays
\* yields exactly one record, that of the calendar date Easter + deltaDays
\* (stepped across the month ends), Easter being calcEaster() for
\* "easter" and calcEasterO() for "easterO".
C6_VariableHoliday ==
    \A i \in 1..pos :
        LET row == holidaysFile.rows[i]
            base == IF row[2] = TokEaster THEN calcEaster(year) ELSE calcEasterO(year)
            dt == AddDays(base, PyInt(row[3]).val)
        IN  EasterRow(row) =>
                /\ RowRecs(i) = <<<<dt[1], PyStr(dt[2]), PyStr(dt[3]), row[5], row[6]>>>>
                /\ ~RowFailed(i)

\* an Easter-relative holiday that falls in another month than Easter
C6_Witness ==
    \E i \in 1..pos :
        /\ EasterRow(holidaysFile.rows[i])
        /\ holidaysFile.rows[i][2] = TokEaster
        /\ PyInt(holidaysFile.rows[i][3]).val < 0
        /\ Len(RowRecs(i)) = 1
        /\ PyInt(RowRecs(i)[1][2]).val < calcEaster(year)[2]

\* importHolidays has returned after opening the file
Returned == pc = "done" /\ holidaysFile.exists

\* the nWDOM rows that raise after appending the requested year's record:
\* month field "12" or "1", the occurrence exists in year Y and not in the
\* neighbouring year
HalfDone(row, Y) ==
    /\ DatedRow(row)
    /\ row[1] = TokNWDOM
    /\ row[2] \in {<<"1", "2">>, <<"1">>}
    /\ RefNWDOMRecord(row, Y) # <<>>
    /\ RefNWDOMRecord(row, IF row[2] = <<"1">> THEN Y + 1 ELSE Y - 1) = <<>>

C8_EmptyListOnFailure ==
    pc = "done" =>
        /\ ~holidaysFile.exists => (warnings = 1 /\ holidaysList = <<>>)
        /\ (holidaysFile.exists /\ pos > 0 /\ ~importRow(year, holidaysFile.rows[pos]).ok) =>
               (warnings = 1 /\ holidaysList = <<>>)

Kinds == {TokFixed, TokNWDOM, TokVariable}

\* C9 as stated: a row whose leading token is none of fixed, nWDOM and
\* variable, the empty row included, adds no record, raises no warning and
\* does not stop the import.
C9_OtherRowsIgnored ==
    \A i \in 1..pos :
        LET row == holidaysFile.rows[i]
        IN  (row = <<>> \/ row[1] \notin Kinds) => (RowRecs(i) = <<>> /\ ~RowFailed(i))

\* C9 amended: a row with a leading token that is none of fixed, nWDOM and
\* variable adds no record, raises no warning and does not stop the import;
\* an empty row (no field at all) adds no record, raises the warning and
\* stops the import.
C9_UnknownTokenIgnored ==
    \A i \in 1..pos :
        LET row == holidaysFile.rows[i]
        IN  /\ (row # <<>> /\ row[1] \notin Kinds) =>
                   /\ RowRecs(i) = <<>>
                   /\ ~RowFailed(i)
                   /\ Returned => (warnings = 0 \/ pos > i)
            /\ row = <<>> => (RowRecs(i) = <<>> /\ (Returned => RowFailed(i)))

\* a row with an unknown token, and the row after it imported
C9_Witness ==
    \E i \in 1..(pos - 1) :
        /\ holidaysFile.rows[i] = <<<<"#">>>>
        /\ Len(RowRecs(i + 1)) > 0
        /\ Returned
        /\ warnings = 0

(***************************************************************************)
(* Properties of importMoons (SpecMoons).                                  *)
(***************************************************************************)
\* the records row i of the file appended to moonsList
MoonRowRecs(i) == SubSeq(moonsList, (IF i = 1 THEN 0 ELSE mmarks[i - 1]) + 1, mmarks[i])

\* a row in the source format <year>,<month>,<day>,<HH:MM>,<phase 0-3> with
\* a calendar date
MoonRow(row) ==
    /\ Len(row) = 5
    /\ \A f \in 1..3 : PyInt(row[f]).ok
    /\ RefValid(PyInt(row[1]).val, PyInt(row[2]).val, PyInt(row[3]).val)
    /\ Len(row[4]) >= 3 /\ row[4][3] = ":"
    /\ PyInt(<<row[4][1], row[4][2]>>).ok
    /\ row[5] \in {<<"0">>, <<"1">>, <<"2">>, <<"3">>}

\* the UTC date and hour of a row
MoonDate(row) == <<PyInt(row[1]).val, PyInt(row[2]).val, PyInt(row[3]).val>>
MoonHour(row) == PyInt(<<row[4][1], row[4][2]>>).val

\* the local date of a row: the next day when hour + utcdiff > 23, the day
\* before when hour + utcdiff < 0
LocalDate(row) ==
    IF MoonHour(row) + utcdiff > 23 THEN NextDay(MoonDate(row))
    ELSE IF MoonHour(row) + utcdiff < 0 THEN PrevDay(MoonDate(row))
    ELSE MoonDate(row)

\* C10: every retained row (its year is the requested one) with UTC date D
\* and hour h yields one record, whose month and day are those of D + 1 day
\* when h + utcdiff > 23, of D - 1 day when h + utcdiff < 0 and of D
\* otherwise, the day before the first of a month being the last day of the
\* month before and the day after the last the first of the next.
C10_MoonDateRollover ==
    \A i \in 1..mpos :
        LET row == moonsFile.rows[i]
            recs == MoonRowRecs(i)
        IN  (MoonRow(row) /\ MoonDate(row)[1] = myear) =>
                /\ Len(recs) = 1
                /\ PyInt(recs[1][1]).ok /\ PyInt(recs[1][2]).ok
                /\ <<PyInt(recs[1][1]).val, PyInt(recs[1][2]).val>>
                       = <<LocalDate(row)[2], LocalDate(row)[3]>>

\* 31 January 23:10 UTC at UTC+2 recorded as 1 February, and 15 June
\* 12:00 UTC recorded as 15 June
C10_Witness ==
    /\ utcdiff = 2
    /\ myear = 2024
    /\ mpc = "done"
    /\ mpos = 2
    /\ MoonRow(moonsFile.rows[1]) /\ MoonRow(moonsFile.rows[2])
    /\ MoonDate(moonsFile.rows[1]) = <<2024, 1, 31>> /\ MoonHour(moonsFile.rows[1]) = 23
    /\ MoonRowRecs(1) = <<<<<<"2">>, <<"1">>, "U+25CF">>>>
    /\ MoonDate(moonsFile.rows[2]) = <<2024, 6, 15>> /\ MoonHour(moonsFile.rows[2]) = 12
    /\ MoonRowRecs(2) = <<<<<<"0", "6">>, <<"1", "5">>, "U+25D0">>>>

\* C11: a row in the source format yields a record exactly when its local
\* date (the UTC date moved by the rollover) lies in the requested year, and
\* the record then carries the month and day of that local date: an event
\* rolling from 31 December of the year into the next one yields no record,
\* an event rolling into the year from a neighbouring one yields one.
C11_RecordsLieInYear ==
    \A i \in 1..mpos :
        LET row == moonsFile.rows[i]
            recs == MoonRowRecs(i)
        IN  MoonRow(row) =>
                IF LocalDate(row)[1] = myear
                THEN /\ Len(recs) = 1
                     /\ PyInt(recs[1][1]).ok /\ PyInt(recs[1][2]).ok
                     /\ <<PyInt(recs[1][1]).val, PyInt(recs[1][2]).val>>
                            = <<LocalDate(row)[2], LocalDate(row)[3]>>
                ELSE recs = <<>>

(***************************************************************************)
(* Properties of the ColorScheme constructors (SpecColors).                *)
(***************************************************************************)
Range(s) == {s[i] : i \in DOMAIN s}

\* the promoted (per-month) role names of the constructor called
Promoted ==
    IF ctor = "uniformMonthScheme" THEN Range(UniformNames)
    ELSE IF ctor \in {"coloredWeekendsHolidays", "coloredWeekendsHolidaysHeader"}
    THEN Range(ColoredNames)
    ELSE {}

\* one of the three per-month constructors has returned a scheme
PerMonthReturned ==
    /\ ctor \in {"uniformMonthScheme", "coloredWeekendsHolidays",
                 "coloredWeekendsHolidaysHeader"}
    /\ colorScheme.ok

\* C12 as stated: in the scheme a per-month constructor returns, every role
\* outside its promoted list has the CMYK value of the default scheme and no
\* bare name of a promoted role is a key.
C12_OthersKeepDefault ==
    PerMonthReturned =>
        LET colors == colorScheme.scheme.colors
        IN  /\ \A k \in DOMAIN DefaultColors :
                   k[1] \notin Promoted =>
                       k \in DOMAIN colors /\ colors[k] = DefaultColors[k]
            /\ \A name \in Promoted : Bare(name) \notin DOMAIN colors

\* C12: in the scheme a per-month constructor returns, every role outside
\* its promoted list has the CMYK value of the default scheme, except
\* txtMonthHeading of coloredWeekendsHolidaysHeader, which is white; no bare
\* name of a promoted role is a key.
C12_OthersKeepDefaultButHeading ==
    PerMonthReturned =>
        LET colors == colorScheme.scheme.colors
        IN  /\ \A k \in DOMAIN DefaultColors :
                   k[1] \notin Promoted =>
                       /\ k \in DOMAIN colors
                       /\ colors[k] =
                              IF ctor = "coloredWeekendsHolidaysHeader"
                                 /\ k = Bare("txtMonthHeading")
                              THEN <<0, 0, 0, 0>>
                              ELSE DefaultColors[k]
            /\ \A name \in Promoted : Bare(name) \notin DOMAIN colors

\* coloredWeekendsHolidaysHeader has returned: fillDate and txtDate are the
\* default's, txtMonthHeading is white, the bare txtWeekend is gone
C12_Witness ==
    /\ ctor = "coloredWeekendsHolidaysHeader"
    /\ colorScheme.ok
    /\ colorScheme.scheme.colors[Bare("fillDate")] = <<0, 0, 0, 0>>
    /\ colorScheme.scheme.colors[Bare("txtDate")] = <<0, 0, 0, 255>>
    /\ colorScheme.scheme.colors[Bare("txtMonthHeading")] = <<0, 0, 0, 0>>
    /\ Bare("txtWeekend") \notin DOMAIN colorScheme.scheme.colors

\* C13: for every month m the scheme of coloredWeekendsHolidays has
\* txtWeekend-m, txtDayNamesWeekend-m and txtHoliday-m at
\* monthColors[m].mainColor, txtWeekend2-m at monthColors[m].lightColor and
\* txtDate2-m, txtSpecialDate-m and fillMonthHeading-m at the default
\* scheme's values; the scheme of coloredWeekendsHolidaysHeader has the same
\* except that fillMonthHeading-m is monthColors[m].mainColor and
\* txtMonthHeading is white.
C13_PerMonthValues ==
    (ctor \in {"coloredWeekendsHolidays", "coloredWeekendsHolidaysHeader"}
         /\ colorScheme.ok) =>
        LET colors == colorScheme.scheme.colors
            Is(name, m, cmyk) ==
                <<name, m>> \in DOMAIN colors /\ colors[<<name, m>>] = cmyk
        IN  /\ \A m \in 1..12 :
                   /\ Is("txtWeekend", m, monthColors[m].mainColor)
                   /\ Is("txtDayNamesWeekend", m, monthColors[m].mainColor)
                   /\ Is("txtHoliday", m, monthColors[m].mainColor)
                   /\ Is("txtWeekend2", m, monthColors[m].lightColor)
                   /\ Is("txtDate2", m, DefaultColors[Bare("txtDate2")])
                   /\ Is("txtSpecialDate", m, DefaultColors[Bare("txtSpecialDate")])
                   /\ Is("fillMonthHeading", m,
                         IF ctor = "coloredWeekendsHolidaysHeader"
                         THEN monthColors[m].mainColor
                         ELSE DefaultColors[Bare("fillMonthHeading")])
            /\ ctor = "coloredWeekendsHolidaysHeader" =>
                   Is("txtMonthHeading", 0, <<0, 0, 0, 0>>)

\* coloredWeekendsHolidays with the table of start_dzzzkranj.py: February's
\* weekend is (0, 56, 10, 28) and its secondary weekend (0, 22, 43, 12),
\* December's holiday is (0, 193, 188, 33), the heading fill stays white
C13_Witness ==
    /\ ctor = "coloredWeekendsHolidays"
    /\ monthColors = dzzzMonthColors
    /\ colorScheme.ok
    /\ colorScheme.scheme.colors[<<"txtWeekend", 2>>] = <<0, 56, 10, 28>>
    /\ colorScheme.scheme.colors[<<"txtWeekend2", 2>>] = <<0, 22, 43, 12>>
    /\ colorScheme.scheme.colors[<<"txtHoliday", 12>>] = <<0, 193, 188, 33>>
    /\ colorScheme.scheme.colors[<<"fillMonthHeading", 12>>] = <<0, 0, 0, 0>>

(***************************************************************************)
(* Properties of the build.                                                *)
(***************************************************************************)
\* the colour names of the calls issued so far that set a colour
ColoursPassed ==
    {calls[i][2] : i \in {j \in 1..Len(calls) : calls[j][1] \in {"setFillColor", "setTextColor"}}}
        \cup {calls[i][5] : i \in {j \in 1..Len(calls) : calls[j][1] = "createCharStyle"}}
        \cup {calls[i][3] : i \in {j \in 1..Len(calls) : calls[j][1] = "createCustomLineStyle"}}

\* the colours Scribus knows without the scheme
Literals == {Bare("None"), Bare("Black"), Bare("White")}

\* C14: every colour name passed to the drawing surface while a month is
\* laid out is a key of the colour map of the scheme, or one of the
\* literals None, Black and White.
C14_RolesResolve ==
    cal # NoCal => ColoursPassed \subseteq (DOMAIN cal.colorScheme.colors) \cup Literals

\* the size of the page inside the margins of the document
UsableWidth == RatSub(RatSub(doc.pageX, doc.marginL), doc.marginR)
UsableHeight == RatSub(RatSub(doc.pageY, doc.marginT), doc.marginB)

\* setupDocVariables has assigned the grid
GridSet == cal # NoCal /\ cal.rows # Unset

\* the row count the header placement and fullRowCount ask for
RowsAskedFor ==
    LET top == cal.calendarStyle.headerPlacement = "TOP"
        full == cal.calendarStyle.fullRowCount
    IN  CASE top /\ full -> Num(8)
          [] top /\ ~full -> Num(7)
          [] ~top /\ full -> Frac(13, 2)
          [] ~top /\ ~full -> Frac(11, 2)

\* the column count the header placement and the week numbers ask for
ColsAskedFor ==
    LET top == cal.calendarStyle.headerPlacement = "TOP"
    IN  CASE top /\ ~cal.weekNr -> Num(7)
          [] top /\ cal.weekNr -> Frac(15, 2)
          [] ~top /\ ~cal.weekNr -> Frac(17, 2)
          [] ~top /\ cal.weekNr -> Num(9)

\* C15: setupDocVariables gives 8 rows and 7 or 7.5 columns under the header
\* on top, 6.5 rows and 8.5 or 9 columns beside the header on the left, one
\* row less without fullRowCount, and sizes the cells as
\* (usableHeight - offsetY) / rows and (usableWidth - offsetX) / cols.
C15_GridCounts ==
    GridSet =>
        /\ cal.rows = RowsAskedFor
        /\ cal.cols = ColsAskedFor
        /\ RatMul(cal.rowSize, cal.rows) = RatSub(UsableHeight, cal.offsetY)
        /\ RatMul(cal.colSize, cal.cols) = RatSub(UsableWidth, cal.offsetX)

\* a grid beside the header, without the full row count, with week numbers
\* and offsets, on a document with margins
C15_Witness ==
    /\ GridSet
    /\ cal.calendarStyle.headerPlacement = "LEFT"
    /\ ~cal.calendarStyle.fullRowCount
    /\ cal.weekNr
    /\ cal.rows = Frac(11, 2)
    /\ cal.offsetX = Frac(21, 2)
    /\ doc.marginT = Num(40)
    /\ bpc = "returned"

\* setupDocVariables ran to its end
SetupDone == cal # NoCal /\ cal.masterPage # Unset

\* colSize / rowSize of the grid
CelRatio == RatDiv(cal.colSize, cal.rowSize)

\* C16: the small-cell mode (abbreviated weekday names, header scaling 0.5,
\* mini calendar factor 1.5/7) is on exactly when colSize / rowSize < 1.33;
\* otherwise the names are the full ones and the factors 1 and 1/7.
C16_SmallCelThreshold ==
    SetupDone =>
        IF RatLess(CelRatio, Frac(133, 100))
        THEN /\ cal.smallCel
             /\ cal.dayOrder = cal.dayOrderAbbr
             /\ \A i \in 1..7 : cal.dayOrder[i][1] = "day_abbr"
             /\ cal.scalingFactor = Frac(1, 2)
             /\ cal.miniFactor = RatDiv(Frac(3, 2), Num(7))
        ELSE /\ ~cal.smallCel
             /\ \A i \in 1..7 : cal.dayOrder[i][1] = "day_name"
             /\ cal.scalingFactor = Num(1)
             /\ cal.miniFactor = Frac(1, 7)

\* a page laid out with cells of ratio 1.32, in small-cell mode
C16_Witness ==
    /\ SetupDone
    /\ CelRatio = Frac(132, 100)
    /\ cal.smallCel
    /\ bpc = "returned"

\* a page laid out with cells of ratio 1.34, not in small-cell mode
C16_WitnessAbove ==
    /\ SetupDone
    /\ CelRatio = Frac(134, 100)
    /\ ~cal.smallCel
    /\ bpc = "returned"

\* the columns the month's first day is away from the first column of a
\* week that starts on cal.mycal, plus the days of the month
CelsOfMonth ==
    ((ZellerWeekday(<<trailing.year, trailing.month, 1>>) - cal.mycal) % 7)
        + RefMonthLength(trailing.year, trailing.month)

\* the days of the month in the 6th week of the week matrix of self.mycal
InSixthWeek ==
    LET weeks == monthdatescalendar(cal.mycal, trailing.year, trailing.month)
    IN  IF Len(weeks) < 6 THEN {}
        ELSE {d \in 1..7 : weeks[6][d][2] = trailing.month}

\* C17: _getTrailingDays returns (offset of the first day + days in the
\* month) mod 7 when that sum is over 35 and 0 otherwise, which is the number
\* of days of the month in the 6th week of monthdatescalendar.
C17_TrailingDays ==
    trailing.returned =>
        /\ trailing.ret = IF CelsOfMonth > 35 THEN CelsOfMonth % 7 ELSE 0
        /\ trailing.ret = Cardinality(InSixthWeek)

\* a month with two days in a 6th week
C17_Witness ==
    /\ trailing.returned
    /\ trailing.ret = 2
    /\ Cardinality(InSixthWeek) = 2
    /\ cal.mycal = SUNDAY

\* the calls issued before createCalendar is entered: progressTotal of
\* __init__
ConstructionCalls == << <<"progressTotal", Len(cal.months)>> >>

\* the object asks for mini calendars beside a header that is not on top
MiniCalsBesideHeader == cal.miniCals /\ cal.calendarStyle.headerPlacement # "TOP"

\* the prompt for a new document was declined
Declined == \E i \in 1..Len(calls) : calls[i] = <<"newDocDialog", FALSE>>

\* C18: with mini calendars and a header that is not on top createCalendar
\* returns its error and issues no call; when the prompt for a new document
\* is declined it returns its error and issues no call after the prompt.
C18_EarlyReturnIssuesNothing ==
    /\ cal # NoCal /\ bpc # "constructed" /\ MiniCalsBesideHeader =>
           /\ bpc = "returned"
           /\ err = MiniCalsError
           /\ calls = ConstructionCalls
           /\ originalUnit = "none"
    /\ Declined =>
           /\ bpc = "returned"
           /\ err = NewDocError
           /\ cal.promptNewDoc \/ ~doc.have
           /\ calls = Append(ConstructionCalls, <<"newDocDialog", FALSE>>)
           /\ originalUnit = "none"
    /\ bpc = "returned" /\ err # None =>
           /\ err \in {MiniCalsError, NewDocError}
           /\ cal.firstPage
           /\ cal.rows = Unset

\* a script's build with mini calendars beside the header has returned
C18_Witness ==
    /\ bpc = "returned"
    /\ err = MiniCalsError
    /\ form.entry = "script"
    /\ Len(cal.months) = 3

\* the prompt was declined with a document open, and without one
C18_WitnessDeclined ==
    /\ bpc = "returned"
    /\ err = NewDocError
    /\ ~doc.have

\* setupDocVariables has been reached
LayoutReached == cal # NoCal /\ cal.rows # Unset

\* C19: every build that reaches the layout has offsetX >= marginX and
\* offsetY >= marginY, from the GUI and from a script alike.
C19_OffsetsCoverMargins ==
    LayoutReached =>
        /\ ~RatLess(cal.offsetX, cal.marginX)
        /\ ~RatLess(cal.offsetY, cal.marginY)

\* the places in the log of the calls of the name given, and the same in
\* their order
PlacesOf(name) == {i \in 1..Len(calls) : calls[i][1] = name}
CallsOf(name) == Sorted(PlacesOf(name))

\* the month loop was entered and nothing was raised
InLoop == bpc = "months" \/ (bpc = "returned" /\ err = None)

\* C20: the months are built one at a time in the order of the request: the
\* k-th sets the progress to k when progress is on, makes one page and
\* draws all its frames before the next month starts; the progress never
\* passes the total announced.
C20_MonthsInOrder ==
    InLoop =>
        LET pages == CallsOf("newPage")
            progress == CallsOf("progressSet")
            frames == PlacesOf("createText")
            \* the page under the frame at place i: the last one made before it
            PageOf(i) == Cardinality({k \in 1..Len(pages) : pages[k] < i})
        IN  /\ run <= Len(cal.months)
            /\ bpc = "returned" => run = Len(cal.months)
            /\ Len(pages) = run
            /\ calls[1] = <<"progressTotal", Len(cal.months)>>
            /\ IF cal.showProgress
               THEN /\ Len(progress) = run
                    /\ \A k \in 1..run :
                           /\ calls[progress[k]] = <<"progressSet", k>>
                           /\ k <= calls[1][2]
                           /\ progress[k] < pages[k]
                           /\ k < run => pages[k] < progress[k + 1]
               ELSE progress = <<>>
            /\ \A i \in frames :
                   /\ PageOf(i) >= 1
                   /\ calls[i][2][1] = cal.months[PageOf(i)]
                   /\ cal.showProgress /\ PageOf(i) < run => i < progress[PageOf(i) + 1]
            /\ \A k \in 1..run : \E i \in frames : PageOf(i) = k

\* the three months of start_dzzzkranj.py are built, with progress
C20_Witness ==
    /\ bpc = "returned"
    /\ err = None
    /\ cal.showProgress
    /\ cal.months = <<4, 6, 7>>
    /\ run = 3
    /\ Len(CallsOf("newPage")) = 3

\* the geometry of the grid and the lists of records of an object
Metrics(c) ==
    <<c.rows, c.cols, c.rowSize, c.colSize, c.smallCel, c.scalingFactor, c.miniFactor,
      c.holidaysList, c.moonsList>>

\* C21: once setupDocVariables has set the geometry of the grid, no month
\* of the same createCalendar run changes it, nor the lists of holiday and
\* moon records: the last month is laid out with the geometry of the first.
C21_MetricsFixed ==
    [][bpc = "months" => Metrics(cal') = Metrics(cal)]_vars

\* three months were laid out in small cells, with holidays and moons, and
\* setupDocVariables ran once
C21_Witness ==
    /\ bpc = "returned"
    /\ err = None
    /\ run = 3
    /\ cal.smallCel
    /\ cal.scalingFactor = Frac(1, 2)
    /\ Len(cal.holidaysList) > 0
    /\ Len(cal.moonsList) > 0
    /\ Cardinality({i \in 1..Len(calls) : calls[i][1] = "setBaseLine"}) = 1

\* C22: importHolidays, and importMoons, called a second time on the same
\* object with the same file returns the list of the first call, record by
\* record.
C22_SameListTwice ==
    /\ pc = "done" /\ Len(returns) = 1 => holidaysList = returns[1]
    /\ mpc = "done" /\ Len(returns) = 1 => moonsList = returns[1]

\* the second importHolidays has returned two records or more
C22_Witness ==
    /\ pc = "done"
    /\ Len(returns) = 1
    /\ Len(holidaysList) >= 2
    /\ holidaysList = returns[1]

\* the second importMoons has returned two records
C22_WitnessMoons ==
    /\ mpc = "done"
    /\ Len(returns) = 1
    /\ Len(moonsList) = 2
    /\ moonsList = returns[1]

\* the page of a build of one month, and the weeks on it:
\* self.mycal.monthdatescalendar(self.year, month + 1)
PageMonth == cal.months[1]
PageWeeks == monthdatescalendar(cal.mycal, cal.year, PageMonth + 1)
\* the page is drawn
PageDrawn == bpc = "returned" /\ err = None /\ Len(cal.months) = 1
\* the date cell of week row wnum and column cnum, and the date in it
Cel(wnum, cnum) == <<PageMonth, "cel", wnum, cnum>>
CelDate(wnum, cnum) == PageWeeks[wnum + 1][cnum + 1]
InMonth(wnum, cnum) == CelDate(wnum, cnum)[2] = PageMonth + 1
\* the places of the calls of a function on a frame, and the argument of
\* the last one
CallsOn(name, frame) ==
    {i \in 1..Len(calls) : calls[i][1] = name /\ calls[i][Len(calls[i])] = frame}
Max(S) == CHOOSE i \in S : \A j \in S : j <= i
Final(name, frame) ==
    IF CallsOn(name, frame) = {} THEN "unset" ELSE calls[Max(CallsOn(name, frame))][2]
\* the frame is made
Made(frame) == \E i \in 1..Len(calls) : calls[i][1] = "createText" /\ calls[i][2] = frame
\* the days of the month in its sixth week row
SixthWeekDays ==
    IF Len(PageWeeks) < 6 THEN 0
    ELSE Cardinality({cnum \in 0..6 : InMonth(5, cnum)})

\* the style of every day of the month is the one of its week row and
\* column
DateStylesRight ==
    \A wnum \in 0..(Len(PageWeeks) - 1), cnum \in 0..6 :
        InMonth(wnum, cnum) =>
            /\ Made(Cel(wnum, cnum))
            /\ Final("setParagraphStyle", Cel(wnum, cnum)) =
                   IF cal.calendarStyle.fullRowCount THEN "par_style_Date"
                   ELSE IF wnum = 5 THEN "par_style_Week_6_Date"
                   ELSE IF wnum = 4 /\ cnum < SixthWeekDays THEN "par_style_Week_5_Date"
                   ELSE "par_style_Date"
            /\ Final("setTextVerticalAlignment", Cel(wnum, cnum)) =
                   IF cal.calendarStyle.fullRowCount
                   THEN cal.dateStyle.textVerticalAlignment
                   ELSE IF wnum = 5 THEN cal.dateWeek6Style.textVerticalAlignment
                   ELSE IF wnum = 4 /\ cnum < SixthWeekDays
                   THEN cal.dateWeek5Style.textVerticalAlignment
                   ELSE cal.dateStyle.textVerticalAlignment

\* C23: an in-month day gets the normal style under the full row count; in
\* a reduced layout it gets the week-6 style in the 6th week row, the
\* week-5 style in the 5th week row exactly when its column is below the
\* number of days of the 6th week, and the normal style otherwise.
C23_DateStyle == PageDrawn => DateStylesRight

\* a reduced page with a 6th week: days of the 5th week row in both styles
C23_Witness ==
    /\ PageDrawn
    /\ ~cal.calendarStyle.fullRowCount
    /\ SixthWeekDays = 2
    /\ Final("setParagraphStyle", Cel(5, 1)) = "par_style_Week_6_Date"
    /\ Final("setParagraphStyle", Cel(4, 1)) = "par_style_Week_5_Date"
    /\ Final("setParagraphStyle", Cel(4, 2)) = "par_style_Date"

\* f"{name}{mtc}" on the page of the build
PageRole(name) == Role(name, IF cal.colorScheme.monthColors THEN PageMonth + 1 ELSE 0)
\* the colour of the last call of a colour function on a frame
FinalColour(name, frame) ==
    IF CallsOn(name, frame) = {} THEN Bare("unset")
    ELSE calls[Max(CallsOn(name, frame))][2]
\* the weekday-name cell over column cnum
DayNameCel(cnum) == <<PageMonth, "dayName", cnum + 1>>
\* the dates of column cnum are Saturdays or Sundays
SatOrSun(cnum) == Weekday(CelDate(0, cnum)) \in {5, 6}
\* a weekend role is given to the frame
WeekendRoles ==
    {PageRole("txtWeekend"), Bare("fillWeekend"), PageRole("txtWeekend2"),
     Bare("fillWeekend2")}
TreatedAsWeekend(frame) ==
    \E i \in 1..Len(calls) :
        /\ calls[i][1] \in {"setTextColor", "setFillColor"}
        /\ calls[i][3] = frame
        /\ calls[i][2] \in WeekendRoles
\* the weekend columns and the weekday names of the page are those of the
\* dates
WeekendColumnsRight ==
    \A cnum \in 0..6 :
        /\ FinalColour("setTextColor", DayNameCel(cnum)) = PageRole("txtDayNamesWeekend")
               <=> SatOrSun(cnum)
        /\ Final("setText", DayNameCel(cnum))[2] = Weekday(CelDate(0, cnum))
        /\ \A wnum \in 0..(Len(PageWeeks) - 1) :
               Made(Cel(wnum, cnum)) =>
                   (TreatedAsWeekend(Cel(wnum, cnum)) <=> SatOrSun(cnum))

\* C24: for every first weekday, placement and week-number setting, a day
\* cell and the weekday name above it are treated as weekend exactly when
\* the dates of the column are Saturdays or Sundays, and the name above a
\* column is the weekday of its dates.
C24_WeekendColumns == PageDrawn => WeekendColumnsRight

\* the same for the weeks that begin on a Monday or a Sunday
C24_MondayOrSunday == PageDrawn /\ cal.mycal \in {MONDAY, SUNDAY} => WeekendColumnsRight

\* a page drawn for weeks that begin on a Tuesday
C24_Witness == PageDrawn /\ cal.mycal = 1 /\ ~WeekendColumnsRight

\* the holiday records of the date of a cell, and whether one is major
CelHolidays(wnum, cnum) == HolidaysOn(cal, CelDate(wnum, cnum))
MajorOn(wnum, cnum) ==
    \E xx \in CelHolidays(wnum, cnum) : cal.holidaysList[xx][5] = <<"1">>
\* the colours a date cell is left with
CelText(wnum, cnum) == FinalColour("setTextColor", Cel(wnum, cnum))
CelFill(wnum, cnum) == FinalColour("setFillColor", Cel(wnum, cnum))
\* the colours of the cells with a holiday are those of the claim
HolidayColoursRight ==
    \A wnum \in 0..(Len(PageWeeks) - 1), cnum \in 0..6 :
        InMonth(wnum, cnum) /\ CelHolidays(wnum, cnum) # {} =>
            IF MajorOn(wnum, cnum)
            THEN /\ CelText(wnum, cnum) = PageRole("txtHoliday")
                 /\ CelFill(wnum, cnum) = Bare("fillHoliday")
            ELSE IF TreatedAsWeekend(Cel(wnum, cnum))
            THEN /\ CelText(wnum, cnum) = PageRole("txtWeekend")
                 /\ CelFill(wnum, cnum) = Bare("fillWeekend")
            ELSE /\ CelText(wnum, cnum) = PageRole("txtSpecialDate")
                 /\ CelFill(wnum, cnum) = Bare("fillSpecialDate")

\* C25: in a full-row layout an in-month cell with a major holiday among
\* its records ends with the holiday text and fill roles, whatever the
\* order of the records and whether or not the day is a weekend; without a
\* major record a minor one gives the special-date roles on a non-weekend
\* day and leaves the weekend roles on a weekend day.
C25_MajorHolidayWins == PageDrawn /\ cal.calendarStyle.fullRowCount => HolidayColoursRight

\* the same for the lists whose minor record of a day comes before the
\* major one
C25_MajorLast ==
    PageDrawn /\ cal.calendarStyle.fullRowCount /\ cal.holidaysList[1][5] = <<"0">>
        => HolidayColoursRight

\* a day with a major record followed by a minor one is left in the
\* special-date colours
C25_Witness ==
    /\ PageDrawn /\ cal.calendarStyle.fullRowCount
    /\ \E wnum \in 0..(Len(PageWeeks) - 1), cnum \in 0..6 :
           /\ InMonth(wnum, cnum) /\ MajorOn(wnum, cnum)
           /\ CelText(wnum, cnum) = PageRole("txtSpecialDate")
           /\ CelFill(wnum, cnum) = Bare("fillSpecialDate")

\* x, y, width and height of the createText call that made the frame
Place(frame) ==
    LET i == CHOOSE i \in 1..Len(calls) : calls[i][1] = "createText" /\ calls[i][2] = frame
    IN  <<calls[i][3], calls[i][4], calls[i][5], calls[i][6]>>
\* the date cells of the page
CelsMade ==
    {wc \in (0..(Len(PageWeeks) - 1)) \X (0..6) : Made(Cel(wc[1], wc[2]))}
\* the bottom of the last grid row
GridBottom == CelY(cal, cal.rows)
\* a reduced page of a month with a sixth week
ReducedSixWeeks == PageDrawn /\ ~cal.calendarStyle.fullRowCount /\ Len(PageWeeks) = 6

\* C26: in a reduced layout the 6th week row has day cells for the days of
\* the month only, each at the place of the 5th-week cell of its column
\* and with the fill None at the end, weekend or holiday or not; no cell
\* lies below the last grid row.
C26_SixthWeekOverlay ==
    /\ ReducedSixWeeks =>
           \A cnum \in 0..6 :
               /\ Made(Cel(5, cnum)) <=> InMonth(5, cnum)
               /\ InMonth(5, cnum) =>
                      /\ Place(Cel(5, cnum)) = Place(Cel(4, cnum))
                      /\ CelFill(5, cnum) = Bare("None")
    /\ PageDrawn /\ ~cal.calendarStyle.fullRowCount =>
           \A wc \in CelsMade :
               ~RatLess(GridBottom,
                        RatAdd(Place(Cel(wc[1], wc[2]))[2], Place(Cel(wc[1], wc[2]))[4]))

\* a 6th week of two days, a weekend day and a major holiday, made
\* transparent
C26_Witness ==
    /\ ReducedSixWeeks
    /\ SixthWeekDays = 2
    /\ TreatedAsWeekend(Cel(5, 0))
    /\ MajorOn(5, 1)
    /\ CelFill(5, 0) = Bare("None") /\ CelFill(5, 1) = Bare("None")
    /\ ~Made(Cel(5, 2))

\* the cell of column y in the empty row that is week row k of the grid
PageRowCnt0 == IF cal.calendarStyle.headerPlacement = "TOP" THEN Num(2) ELSE Frac(1, 2)
EmptyCel(k, y) == <<PageMonth, "empty", RatAdd(PageRowCnt0, Num(k)), y>>
\* a page with the full row count for weeks that begin on a Monday or a
\* Sunday
FullPage ==
    PageDrawn /\ cal.calendarStyle.fullRowCount /\ cal.mycal \in {MONDAY, SUNDAY}
\* six week rows of seven cells, the empty rows shaded in the weekend
\* columns of the populated rows
BackfillRight ==
    \A k \in 0..5, y \in 0..6 :
        IF k < Len(PageWeeks) THEN Made(Cel(k, y))
        ELSE /\ Made(EmptyCel(k, y))
             /\ Place(EmptyCel(k, y))[1] = Place(Cel(0, y))[1]
             /\ FinalColour("setFillColor", EmptyCel(k, y)) = Bare("fillWeekend2")
                    <=> TreatedAsWeekend(Cel(0, y))

\* C27: with the full row count every one of the 6 week rows holds 7 day
\* cells, and the empty rows are shaded as weekend in the columns that are
\* shaded as weekend in the populated rows, for every placement, both
\* week-number settings and both first weekdays.
C27_BackfillColumns == FullPage => BackfillRight

\* the same for the header placement TOP
C27_TopPlacement ==
    FullPage /\ cal.calendarStyle.headerPlacement = "TOP" => BackfillRight

\* a page with the header on the left, two empty rows and the weekend
\* columns 5 and 6: the empty rows are shaded in columns 4 and 5
C27_Witness ==
    /\ FullPage /\ cal.calendarStyle.headerPlacement = "LEFT" /\ ~cal.weekNr
    /\ Len(PageWeeks) = 4
    /\ TreatedAsWeekend(Cel(0, 5)) /\ TreatedAsWeekend(Cel(0, 6))
    /\ FinalColour("setFillColor", EmptyCel(5, 4)) = Bare("fillWeekend2")
    /\ FinalColour("setFillColor", EmptyCel(5, 5)) = Bare("fillWeekend2")
    /\ FinalColour("setFillColor", EmptyCel(5, 6)) = Bare("fillDate")

\* column cnum is a weekend column of the page: the cells of the month in
\* it are treated as weekend
WeekendColumn(cnum) == TreatedAsWeekend(Cel(1, cnum))
\* a holiday or moon frame is made over the cell
Annotated(wnum, cnum) ==
    \E i \in 1..Len(calls) :
        /\ calls[i][1] = "createText"
        /\ calls[i][2][2] \in {"holiday", "moon"}
        /\ calls[i][2][3] = wnum /\ calls[i][2][4] = cnum
\* the colours of the holiday overlay and of the days of the month
HolidayRoles ==
    {PageRole("txtHoliday"), Bare("fillHoliday"), PageRole("txtSpecialDate"),
     Bare("fillSpecialDate"), PageRole("txtWeekend"), Bare("fillWeekend")}
HolidayColoured(frame) ==
    \E i \in 1..Len(calls) :
        /\ calls[i][1] \in {"setTextColor", "setFillColor"}
        /\ calls[i][3] = frame
        /\ calls[i][2] \in HolidayRoles
\* the cells of the page with a date of the previous or the next month
AdjacentCels == {wc \in CelsMade : ~InMonth(wc[1], wc[2])}

\* C28: a cell of the previous or next month shows its day number exactly
\* when fillAllDays is set, in the secondary weekend text role on a
\* weekend column and the secondary date text role otherwise; it has the
\* secondary weekend fill on a weekend column, number or not; and it gets
\* no holiday text, holiday colour or moon glyph.
C28_AdjacentMonthCells ==
    PageDrawn =>
        \A wc \in AdjacentCels :
            LET wnum == wc[1]
                cnum == wc[2]
                cel == Cel(wnum, cnum)
            IN  /\ CallsOn("setText", cel) # {} <=> cal.calendarStyle.fillAllDays
                /\ cal.calendarStyle.fillAllDays =>
                       /\ Final("setText", cel) = PyStr(CelDate(wnum, cnum)[3])
                       /\ CelText(wnum, cnum) =
                              IF WeekendColumn(cnum) THEN PageRole("txtWeekend2")
                              ELSE PageRole("txtDate2")
                /\ ~cal.calendarStyle.fillAllDays => CallsOn("setTextColor", cel) = {}
                /\ CelFill(wnum, cnum) =
                       IF WeekendColumn(cnum) THEN Bare("fillWeekend2") ELSE Bare("fillDate")
                /\ ~Annotated(wnum, cnum)
                /\ ~HolidayColoured(cel)

\* a cell of the next month on a day with a major holiday and a moon, on a
\* weekend column, with its number; and one without
C28_Witness ==
    /\ PageDrawn
    /\ \E wc \in AdjacentCels :
           /\ MajorOn(wc[1], wc[2])
           /\ MoonsOn(cal, CelDate(wc[1], wc[2])) # {}
           /\ WeekendColumn(wc[2])
           /\ CelText(wc[1], wc[2]) = PageRole("txtWeekend2")
           /\ CelFill(wc[1], wc[2]) = Bare("fillWeekend2")

C28_WitnessBlank ==
    /\ PageDrawn /\ ~cal.calendarStyle.fillAllDays
    /\ \E wc \in AdjacentCels :
           /\ MajorOn(wc[1], wc[2])
           /\ CallsOn("setText", Cel(wc[1], wc[2])) = {}
           /\ CelFill(wc[1], wc[2]) = Bare("fillDate")

\* a row <year>,<month>,<day>,<HH:MM>,<code> with a calendar date, whatever
\* the code
MoonRowAnyCode(row) ==
    /\ Len(row) = 5
    /\ \A f \in 1..3 : PyInt(row[f]).ok
    /\ RefValid(PyInt(row[1]).val, PyInt(row[2]).val, PyInt(row[3]).val)
    /\ Len(row[4]) >= 3 /\ row[4][3] = ":"
    /\ PyInt(<<row[4][1], row[4][2]>>).ok
\* the glyphs of the phase codes: New Moon, First Quarter, Full Moon, Last
\* Quarter
PhaseGlyph ==
    (<<"0">> :> "U+25CF") @@ (<<"1">> :> "U+25D0") @@ (<<"2">> :> "U+25CB")
    @@ (<<"3">> :> "U+25D1")
PhaseGlyphs == {PhaseGlyph[code] : code \in DOMAIN PhaseGlyph}
\* what importMoons makes of row i
MoonRowRight(i) ==
    LET row == moonsFile.rows[i]
        recs == MoonRowRecs(i)
    IN  IF MoonDate(row)[1] # myear THEN recs = <<>>
        ELSE IF row[5] \in DOMAIN PhaseGlyph
        THEN Len(recs) = 1 /\ recs[1][3] = PhaseGlyph[row[5]]
        ELSE \A k \in 1..Len(recs) : recs[k][3] \notin PhaseGlyphs

\* C29: importMoons keeps the rows of the requested year only, one record
\* for each, with the glyph of the row's own phase code, the four glyphs
\* being distinct; a row whose code is not in 0..3 yields no record with a
\* glyph of an earlier row.
C29_GlyphOfOwnCode ==
    /\ Cardinality(PhaseGlyphs) = 4
    /\ \A i \in 1..mpos : MoonRowAnyCode(moonsFile.rows[i]) => MoonRowRight(i)

\* the same for the rows with a phase code in 0..3
C29_CodedRows ==
    \A i \in 1..mpos : MoonRow(moonsFile.rows[i]) => MoonRowRight(i)

\* a row with code 7 after a New Moon row: recorded with the New Moon glyph
C29_Witness ==
    /\ mpc = "done" /\ mpos = 2 /\ myear = 2024
    /\ MoonRow(moonsFile.rows[1]) /\ moonsFile.rows[1][5] = <<"0">>
    /\ MoonRowAnyCode(moonsFile.rows[2]) /\ moonsFile.rows[2][5] = <<"7">>
    /\ MoonRowRecs(2) = << <<<<"7">>, <<"7">>, "U+25CF">> >>

\* the page of the object that has run is the page of its own first
\* weekday: weekend columns, styles of the 5th and 6th week and the shading
\* of the empty rows
OwnWeekPage ==
    /\ WeekendColumnsRight
    /\ DateStylesRight
    /\ cal.calendarStyle.fullRowCount => BackfillRight

\* C30: two objects with different first weekdays, constructed one after
\* the other and run in either order: the weekend columns, the week matrix
\* and the trailing-day count of each build are those of the first weekday
\* given to its own constructor.
C30_OwnFirstWeekday == PageDrawn => OwnWeekPage

\* the same for an object that is run while calendar.firstweekday() is its
\* own first weekday
C30_SameFirstWeekday == PageDrawn /\ firstweekday = cal.mycal => OwnWeekPage

\* the object constructed first, for weeks from Monday, run after a second
\* one for weeks from Sunday was constructed: the Monday column is shaded
C30_Witness ==
    /\ PageDrawn /\ cal.mycal = MONDAY /\ firstweekday = SUNDAY
    /\ TreatedAsWeekend(Cel(1, 0)) /\ ~TreatedAsWeekend(Cel(1, 5))
    /\ Weekday(CelDate(1, 0)) = 0

====
